---- MODULE Spec2Model ----
(***************************************************************************)
(* rschat server: the channel registry (server/session.rs) and the         *)
(* per-connection task group of server/mod.rs: the coordinator             *)
(* (session_task), the responder (response_handler), the subscriber        *)
(* (message_handler) and the writer (stream_sender).                       *)
(*                                                                         *)
(* Strings are sequences of tokens: "" is <<>>, "root" is <<"root">>,      *)
(* format!("guest_{}", 7) is <<"guest_", "7">>.  Option<T> is a sequence of  *)
(* length at most one.  A usize counter is stored by its representative    *)
(* in (-2^63, 2^63): r >= 0 stands for r and r < 0 for 2^64 + r, which is  *)
(* what a wrapping subtraction below zero leaves in a release build.       *)
(***************************************************************************)
EXTENDS Integers, Sequences, FiniteSets, TLC

\* ------------------------------------------------------------------ bounds
MaxSessions == 2
MaxFrames == 2
MaxMoveFrames == 3
MaxGuestNum == 1
MaxCrowdedFrames == 2
MaxStoreFrames == 2
MaxWireFrames == 2
MaxChatFrames == 3
MaxSlowFrames == 3
MaxLockFrames == 3
MaxLagFrames == 3
MaxAccountFrames == 2
MaxBurstFrames == 2
MaxQuitFrames == 2
MaxClients == 1
MaxClientCommands == 1

\* ------------------------------------------------------- program constants
NUM_MAX_GUEST == 64
NUM_MAX_USER == 128
BUS_CAPACITY == 32
QUEUE_CAPACITY == 32

DEFAULT_CHANNEL == "public"
SYSTEM_CHANNELS == {DEFAULT_CHANNEL, "main", "dev"}

Sessions == 1..MaxSessions
GuestNums == 0..MaxGuestNum

VARIABLES
    overflow_checks,  \* build profile: TRUE panics on usize overflow, FALSE wraps
    codec,            \* a packet on its way through as_json_string and from_str
    lock,             \* registry AsyncMutex: its holder, and where each coordinator is in its arm
    client,           \* the client program of each connection: its request in flight and its receiver
    store,            \* credential store service: up, down (no connection), failing (statements fail)
    users,            \* credential store: set of [id, password]
    channels,         \* registry: channel name -> State {names, num_user, num_guest}
    st,               \* coordinator task per session: idle, read, closed, panicked
    id,               \* Arc<Mutex<String>> identifier slot per session
    channel_name,     \* coordinator local: current channel name
    subs,             \* message_handler tasks of the session (cancelled ones until they exit)
    res_q,            \* res_tx / res_rx
    sock_q,           \* sock_tx / sock_rx
    socket,           \* stream_sender: the frame it wrote last to the write half
    nreq,             \* frames the coordinator has read (history)
    granted,          \* id returned by the latest successful login (history)
    last              \* the frame the coordinator read last (history)

vars == <<overflow_checks, store, codec, lock, client, users, channels, st, id, channel_name, subs, res_q,
          sock_q, socket, nreq, granted, last>>

\* ----------------------------------------------------------------- strings
EmptyString == <<>>

StartsWithGuest(name) == Len(name) >= 1 /\ name[1] = "guest_"

GuestId(n) == <<"guest_", ToString(n)>>

Some(x) == <<x>>
None == <<>>
is_none(o) == o = <<>>
unwrap(o) == o[1]

Ok(v) == [ok |-> TRUE, val |-> v]
Err(e) == [ok |-> FALSE, val |-> e]

\* ----------------------------------------------------------------- packets
MessageConnection(i) ==
    [type |-> "Message", id |-> i, msg |-> <<"'">> \o i \o <<"' has joined">>,
     is_system |-> TRUE]

MessageDisconnection(i) ==
    [type |-> "Message", id |-> i, msg |-> <<"'">> \o i \o <<"' has left">>,
     is_system |-> TRUE]

ChatMessage(i) ==
    [type |-> "Message", id |-> i, msg |-> <<"hi">>, is_system |-> FALSE]

Connected == [type |-> "Connected"]

LoginRes(r) == [type |-> "LoginRes", result |-> r]
FetchRes(item, r) == [type |-> "FetchRes", item |-> item, result |-> r]
GotoRes(r) == [type |-> "GotoRes", result |-> r]

\* ---------------------------------------------------------- usize counters
\* (mutant) the capacity test lets one more in
UGt(r, c) == r < 0 \/ r > c

UGe(r, c) == r < 0 \/ r >= c

\* ------------------------------------------------------------------ Channel
NewState == [names |-> {}, num_user |-> 0, num_guest |-> 0]

leave_user(ch, name) ==
    IF StartsWithGuest(name)
    THEN [ch EXCEPT !.num_guest = @ - 1, !.names = @ \ {name}]
    ELSE [ch EXCEPT !.num_user = @ - 1, !.names = @ \ {name}]

\* the subtraction of leave_user goes below zero
leave_underflows(ch, name) ==
    IF StartsWithGuest(name) THEN ch.num_guest = 0 ELSE ch.num_user = 0

add_connection(ch, name) ==
    IF StartsWithGuest(name)
    THEN [ch EXCEPT !.num_guest = @ + 1, !.names = @ \cup {name}]
    ELSE [ch EXCEPT !.num_user = @ + 1, !.names = @ \cup {name}]

has_user(ch, name) == name \in ch.names

\* the text "' -- ": a quote that ends the SQL literal and a comment that
\* runs to the end of the statement
QUOTE_COMMENT == "' -- "

EndsInComment(str) == str # <<>> /\ str[Len(str)] = QUOTE_COMMENT

Front(str) == SubSeq(str, 1, Len(str) - 1)

\* the rows of format!("SELECT id FROM user WHERE id='{}' AND password='{}'"):
\* the id and the password are pasted into the statement as they are
select_id(i, pw) ==
    IF EndsInComment(i)
    THEN {u.id : u \in {v \in users : v.id = Front(i)}}
    ELSE {u.id : u \in {v \in users : v.id = i /\ v.password = pw}}

\* Login::login; id is the primary key, so there is at most one row
login(info) ==
    IF store = "down"
    THEN Err(<<"Failed to get sql connection">>)
    ELSE IF store = "failing"
    THEN Err(<<"Wrong ID or Password">>)
    ELSE IF select_id(unwrap(info.id), unwrap(info.password)) # {}
    THEN Ok(CHOOSE i \in select_id(unwrap(info.id), unwrap(info.password)) : TRUE)
    ELSE Err(<<"Wrong ID or Password">>)

\* the characters of the channel names used here; e_acute is the one
\* character U+00E9
Chars(name) ==
    CASE name = "public" -> <<"p", "u", "b", "l", "i", "c">>
      [] name = "main" -> <<"m", "a", "i", "n">>
      [] name = "dev" -> <<"d", "e", "v">>
      [] name = "nowhere" -> <<"n", "o", "w", "h", "e", "r", "e">>
      [] name = "" -> <<>>
      [] name = "ab" -> <<"a", "b">>
      [] name = "abc" -> <<"a", "b", "c">>
      [] name = "_x1" -> <<"_", "x", "1">>
      [] name = "___" -> <<"_", "_", "_">>
      [] name = "Room_2" -> <<"R", "o", "o", "m", "_", "2">>
      [] name = "a1_" -> <<"a", "1", "_">>
      [] name = "dev2" -> <<"d", "e", "v", "2">>
      [] name = "x_y" -> <<"x", "_", "y">>
      [] name = "1abc" -> <<"1", "a", "b", "c">>
      [] name = "a-b" -> <<"a", "-", "b">>
      [] name = "a b" -> <<"a", " ", "b">>
      [] name = "ab!" -> <<"a", "b", "!">>
      [] name = "e_acute t e_acute" -> <<"e_acute", "t", "e_acute">>
      [] name = "a e_acute" -> <<"a", "e_acute">>

ASCII_ALPHABETIC ==
    {"a", "b", "c", "d", "e", "f", "g", "h", "i", "j", "k", "l", "m", "n", "o", "p", "q",
     "r", "s", "t", "u", "v", "w", "x", "y", "z", "A", "B", "C", "D", "E", "F", "G", "H",
     "I", "J", "K", "L", "M", "N", "O", "P", "Q", "R", "S", "T", "U", "V", "W", "X", "Y",
     "Z"}
ASCII_DIGIT == {"0", "1", "2", "3", "4", "5", "6", "7", "8", "9"}
ASCII_OTHER == {"_", "-", " ", "!"}

is_ascii_alphabetic(c) == c \in ASCII_ALPHABETIC
is_ascii_alphanumeric(c) == c \in ASCII_ALPHABETIC \cup ASCII_DIGIT

\* bytes of the UTF-8 encoding of a character: the ones outside ASCII used
\* here take two
len_utf8(c) ==
    IF c \in ASCII_ALPHABETIC \cup ASCII_DIGIT \cup ASCII_OTHER THEN 1 ELSE 2

RECURSIVE str_len(_)
str_len(cs) == IF cs = <<>> THEN 0 ELSE len_utf8(Head(cs)) + str_len(Tail(cs))

MINIMUM_LEN == 3

\* Channels::is_valid
is_valid(name) ==
    LET cs == Chars(name)
    IN  /\ str_len(cs) >= MINIMUM_LEN
        /\ (cs[1] = "_" \/ is_ascii_alphabetic(cs[1]))
        /\ \A k \in DOMAIN cs : is_ascii_alphanumeric(cs[k]) \/ cs[k] = "_"

\* (mutant) a duplicate replaces the channel
create_channel_replaces(reg, name) ==
    IF ~is_valid(name)
    THEN [created |-> FALSE, reg |-> reg]
    ELSE [created |-> TRUE,
          reg |-> [c \in DOMAIN reg \cup {name} |->
                      IF c = name THEN NewState ELSE reg[c]]]

\* Channels::create_channel: Some(&Channel) or None, and the registry after it
create_channel(reg, name) ==
    IF ~is_valid(name) \/ name \in DOMAIN reg
    THEN [created |-> FALSE, reg |-> reg]
    ELSE [created |-> TRUE,
          reg |-> [c \in DOMAIN reg \cup {name} |->
                      IF c = name THEN NewState ELSE reg[c]]]

NoChannels == [c \in {} |-> NewState]

\* Channels::with_system_channels: public, main, dev in that order
with_system_channels ==
    create_channel(create_channel(create_channel(NoChannels, DEFAULT_CHANNEL).reg,
                                  "main").reg, "dev").reg

get_channel(name) == name \in DOMAIN channels

\* ---------------------------------------------------------------- the bus
RECURSIVE SumTo(_, _)
SumTo(f, n) == IF n = 0 THEN 0 ELSE f[n] + SumTo(f, n - 1)

\* A packet on a bus, with its history: who published it, on which bus, the
\* sessions on that channel whose granted identifier is the packet's id, the
\* sessions whose current channel was another one, the sessions whose
\* coordinator had returned, and the number of frames the coordinators had
\* read before the frame that published it.
Envelope(pkt, s, c, gr, cn) ==
    [pkt |-> pkt, src |-> s, chan |-> c, at |-> SumTo(nreq, MaxSessions),
     self |-> IF pkt.type = "Message"
              THEN {t \in Sessions : st[t] = "read" /\ cn[t] = c
                                      /\ gr[t] # EmptyString /\ gr[t] = pkt.id}
              ELSE {},
     away |-> {t \in Sessions : st[t] # "idle" /\ cn[t] # c},
     gone |-> {t \in Sessions : st[t] \in {"closed", "panicked"}}]

\* broadcast::Sender::send: every receiver subscribed to the bus gets the
\* packet; a receiver that is a full backlog behind loses its oldest one.
Deliver(sub, c, e) ==
    IF sub.chan # c THEN sub
    ELSE IF Len(sub.inbox) >= BUS_CAPACITY
         THEN [sub EXCEPT !.inbox = Append(Tail(@), e), !.lagged = TRUE]
         ELSE [sub EXCEPT !.inbox = Append(@, e)]

\* (mutant) a publication is dropped while some outbound queue is full
SendWhenDrained(sb, c, e) ==
    IF \E t \in Sessions : Len(sock_q[t]) >= QUEUE_CAPACITY
    THEN sb
    ELSE [t \in Sessions |-> [i \in DOMAIN sb[t] |-> Deliver(sb[t][i], c, e)]]

Send(sb, c, e) ==
    [t \in Sessions |-> [i \in DOMAIN sb[t] |-> Deliver(sb[t][i], c, e)]]

\* (mutant) the subscriber forwards from the start
InitialConnectedTrue == TRUE

\* message_handler at spawn: `connected` is false
InitialConnected == FALSE

NewSubscriber(c, how) ==
    [chan |-> c, inbox |-> <<>>, connected |-> InitialConnected, cancelled |-> FALSE,
     lagged |-> FALSE, seen |-> FALSE, by |-> how]

Cancel(ss) == [i \in DOMAIN ss |-> [ss[i] EXCEPT !.cancelled = TRUE]]

RemoveAt(q, i) == [j \in 1..(Len(q) - 1) |-> IF j < i THEN q[j] ELSE q[j + 1]]

\* -------------------------------------------------------------------- Init
NoCodec == [stage |-> "idle"]
NoLock == [holder |-> 0, pc |-> [s \in Sessions |-> [at |-> "read"]]]
NoClient == [s \in Sessions |-> [pc |-> "off"]]
NoFrame == [pkt |-> [type |-> "None"]]
NoRequest == [type |-> "None"]

Init ==
    /\ overflow_checks \in BOOLEAN
    /\ store = "up"
    /\ codec = NoCodec
    /\ lock = NoLock
    /\ client = NoClient
    /\ users = {[id |-> <<"root">>, password |-> <<"alpine">>]}
    /\ channels = with_system_channels
    /\ st = [s \in Sessions |-> "idle"]
    /\ id = [s \in Sessions |-> EmptyString]
    /\ channel_name = [s \in Sessions |-> DEFAULT_CHANNEL]
    /\ subs = [s \in Sessions |-> <<>>]
    /\ res_q = [s \in Sessions |-> <<>>]
    /\ sock_q = [s \in Sessions |-> <<>>]
    /\ socket = [s \in Sessions |-> NoFrame]
    /\ nreq = [s \in Sessions |-> 0]
    /\ granted = [s \in Sessions |-> EmptyString]
    /\ last = [s \in Sessions |-> NoRequest]

\* fewer than n frames have been read by all coordinators together
FramesLeft(n) == SumTo(nreq, MaxSessions) < n

\* the coordinator is blocked in rd.read and the frame `req` arrives
Reads(s, req) ==
    /\ st[s] = "read"
    /\ nreq' = [nreq EXCEPT ![s] = @ + 1]
    /\ last' = [last EXCEPT ![s] = req]

\* `res_tx.send(packet).await`: the reply goes on the responder's queue
Reply(s, packet) ==
    /\ Len(res_q[s]) < QUEUE_CAPACITY
    /\ res_q' = [res_q EXCEPT ![s] = Append(@, packet)]

\* ------------------------------------------------------------ session_task
\* run_server accepts a connection; session_task runs up to its first read
Accept(s) ==
    /\ st[s] = "idle"
    /\ \A t \in Sessions : t < s => st[t] # "idle"
    /\ st' = [st EXCEPT ![s] = "read"]
    /\ subs' = [subs EXCEPT ![s] = <<NewSubscriber(DEFAULT_CHANNEL, "accept")>>]
    /\ UNCHANGED <<overflow_checks, store, codec, lock, client, users, channels, id, channel_name, res_q, sock_q,
                   socket, nreq, granted, last>>

GuestLogin == [guest |-> TRUE, id |-> None, password |-> None]

LoginInputs ==
    { GuestLogin,
      [guest |-> FALSE, id |-> Some(<<"root">>), password |-> Some(<<"alpine">>)],
      [guest |-> FALSE, id |-> Some(<<"root">>), password |-> Some(<<"toor">>)],
      [guest |-> FALSE, id |-> None, password |-> Some(<<"alpine">>)] }

\* the panic of an overflowing subtraction ends the coordinator task
Panic(s) ==
    /\ st' = [st EXCEPT ![s] = "panicked"]
    /\ UNCHANGED <<overflow_checks, store, codec, lock, client, users, channels, id, channel_name, subs, res_q,
                   sock_q, socket, granted>>

\* (mutant) Connected is published before the arrival Message
LoginPublishConnectedFirst(s, res) ==
    LET c == channel_name[s]
        e1 == Envelope(MessageConnection(res.val), s, c, granted', channel_name)
        e2 == Envelope(Connected, s, c, granted', channel_name)
    IN  subs' = IF res.ok THEN Send(Send(subs, c, e2), c, e1) ELSE subs

\* the two publications of a successful login
LoginPublish(s, res) ==
    LET c == channel_name[s]
        e1 == Envelope(MessageConnection(res.val), s, c, granted', channel_name)
        e2 == Envelope(Connected, s, c, granted', channel_name)
    IN  subs' = IF res.ok THEN Send(Send(subs, c, e1), c, e2) ELSE subs

\* the rest of the LoginReq arm once the channel has been updated
LoginDone(s, ch2, res) ==
    /\ channels' = [channels EXCEPT ![channel_name[s]] = ch2]
    /\ granted' = IF res.ok THEN [granted EXCEPT ![s] = res.val] ELSE granted
    /\ LoginPublish(s, res)
    /\ Reply(s, LoginRes(res))
    /\ UNCHANGED <<overflow_checks, store, codec, lock, client, users, st, id, channel_name, sock_q, socket>>

\* guest branch of the LoginReq arm (Channel::connect_guest)
connect_guest(s, ch) ==
    IF UGe(ch.num_guest, NUM_MAX_GUEST)
    THEN LoginDone(s, ch, Err(<<"too many guests">>))
    ELSE \E n \in GuestNums :
            /\ ~has_user(ch, GuestId(n))
            /\ LoginDone(s, add_connection(ch, GuestId(n)), Ok(GuestId(n)))

\* account branch of the LoginReq arm (Channel::connect_user)
connect_user(s, ch, info, cur_id) ==
    IF UGe(ch.num_user, NUM_MAX_USER)
    THEN LoginDone(s, ch, Err(<<"too many users">>))
    ELSE IF is_none(info.id) \/ is_none(info.password)
    THEN LoginDone(s, ch, Err(<<"broken login packet">>))
    ELSE IF ~login(info).ok
    THEN LoginDone(s, ch, login(info))
    ELSE IF leave_underflows(ch, cur_id) /\ overflow_checks
    THEN Panic(s)
    ELSE LoginDone(s, add_connection(leave_user(ch, cur_id), unwrap(info.id)),
                   login(info))

\* LoginReq arm
LoginReq(s, info) ==
    /\ Reads(s, [type |-> "LoginReq", login_info |-> info])
    /\ IF info.guest
       THEN connect_guest(s, channels[channel_name[s]])
       ELSE connect_user(s, channels[channel_name[s]], info, id[s])

GotoInputs == {DEFAULT_CHANNEL, "dev", "nowhere"}

\* (mutant) Connected is published before the new subscriber subscribes
GotoSwitchPublishFirst(s, name) ==
    LET e == Envelope(Connected, s, name, granted, channel_name)
        sent == Send([subs EXCEPT ![s] = Cancel(@)], name, e)
    IN  /\ subs' = [sent EXCEPT ![s] = Append(@, NewSubscriber(name, "goto"))]
        /\ channel_name' = [channel_name EXCEPT ![s] = name]

\* GotoReq arm, Some(sender): cancel, respawn on the target bus, publish Connected
GotoSwitch(s, name) ==
    LET spawned == [subs EXCEPT ![s] = Append(Cancel(@), NewSubscriber(name, "goto"))]
        e == Envelope(Connected, s, name, granted, channel_name)
    IN  /\ subs' = Send(spawned, name, e)
        /\ channel_name' = [channel_name EXCEPT ![s] = name]

\* (mutant) the subscriber is cancelled before the channel is looked up
GotoReqCancelsFirst(s, name) ==
    /\ Reads(s, [type |-> "GotoReq", channel_name |-> name])
    /\ IF get_channel(name)
       THEN /\ GotoSwitch(s, name)
            /\ Reply(s, GotoRes(Ok(<<name>>)))
       ELSE /\ Reply(s, GotoRes(Err(<<"Invalid or not permitted to join the channel">>)))
            /\ subs' = [subs EXCEPT ![s] = Cancel(@)]
            /\ UNCHANGED channel_name
    /\ UNCHANGED <<overflow_checks, store, codec, lock, client, users, channels, st, id, sock_q, socket, granted>>

\* (mutant) the session takes the requested name whether the channel exists or not
GotoReqRenamesAnyway(s, name) ==
    /\ Reads(s, [type |-> "GotoReq", channel_name |-> name])
    /\ IF get_channel(name)
       THEN /\ GotoSwitch(s, name)
            /\ Reply(s, GotoRes(Ok(<<name>>)))
       ELSE /\ Reply(s, GotoRes(Err(<<"Invalid or not permitted to join the channel">>)))
            /\ channel_name' = [channel_name EXCEPT ![s] = name]
            /\ UNCHANGED subs
    /\ UNCHANGED <<overflow_checks, store, codec, lock, client, users, channels, st, id, sock_q, socket, granted>>

\* GotoReq arm
GotoReq(s, name) ==
    /\ Reads(s, [type |-> "GotoReq", channel_name |-> name])
    /\ IF get_channel(name)
       THEN /\ GotoSwitch(s, name)
            /\ Reply(s, GotoRes(Ok(<<name>>)))
       ELSE /\ Reply(s, GotoRes(Err(<<"Invalid or not permitted to join the channel">>)))
            /\ UNCHANGED <<subs, channel_name>>
    /\ UNCHANGED <<overflow_checks, store, codec, lock, client, users, channels, st, id, sock_q, socket, granted>>

\* (mutant) the list is the one of the default channel
fetch_default(s, item) ==
    IF item = "list"
    THEN LET ch == channels[DEFAULT_CHANNEL]
         IN  FetchRes(item, Ok([user_list |-> ch.names, num_user |-> ch.num_user,
                                num_guest |-> ch.num_guest]))
    ELSE FetchRes(item, Err(<<"unknown fetch item">>))

\* the FetchRes for `item`; user_list has no order
fetch(s, item) ==
    IF item = "list"
    THEN LET ch == channels[channel_name[s]]
         IN  FetchRes(item, Ok([user_list |-> ch.names, num_user |-> ch.num_user,
                                num_guest |-> ch.num_guest]))
    ELSE FetchRes(item, Err(<<"unknown fetch item">>))

FetchInputs == {"list", "info"}

\* FetchReq arm
FetchReq(s, item) ==
    /\ Reads(s, [type |-> "FetchReq", item |-> item])
    /\ Reply(s, fetch(s, item))
    /\ UNCHANGED <<overflow_checks, store, codec, lock, client, users, channels, st, id, channel_name, subs,
                   sock_q, socket, granted>>

\* the id a client puts in the Message frames it sends
MessageInputs(s) == {granted[s]}

\* Message arm: publish on the current bus, no reply
MessageReq(s, i) ==
    /\ Reads(s, ChatMessage(i))
    /\ subs' = Send(subs, channel_name[s],
                    Envelope(ChatMessage(i), s, channel_name[s], granted, channel_name))
    /\ UNCHANGED <<overflow_checks, store, codec, lock, client, users, channels, st, id, channel_name, res_q,
                   sock_q, socket, granted>>

\* Exit arm: leave the current channel, publish the farewell, return
ExitReq(s) ==
    /\ Reads(s, [type |-> "Exit"])
    /\ LET c == channel_name[s]
       IN  IF leave_underflows(channels[c], id[s]) /\ overflow_checks
           THEN Panic(s)
           ELSE /\ channels' = [channels EXCEPT ![c] = leave_user(@, id[s])]
                /\ subs' = Send(subs, c, Envelope(MessageDisconnection(id[s]), s, c,
                                                  granted, channel_name))
                /\ st' = [st EXCEPT ![s] = "closed"]
                /\ UNCHANGED <<overflow_checks, store, codec, lock, client, users, id, channel_name, res_q, sock_q,
                               socket, granted>>

\* rd.read returns Ok(0) or Err: the coordinator returns
SocketClosed(s) ==
    /\ st[s] = "read"
    /\ st' = [st EXCEPT ![s] = "closed"]
    /\ UNCHANGED <<overflow_checks, store, codec, lock, client, users, channels, id, channel_name, subs, res_q,
                   sock_q, socket, nreq, granted, last>>

\* -------------------------------------------------------- response_handler
\* (mutant) the slot takes the result of every LoginRes
response_handler_any_result(s) ==
    /\ res_q[s] # <<>>
    /\ Len(sock_q[s]) < QUEUE_CAPACITY
    /\ LET r == Head(res_q[s])
       IN  /\ id' = IF r.type = "LoginRes"
                    THEN [id EXCEPT ![s] = r.result.val]
                    ELSE id
           /\ sock_q' = [sock_q EXCEPT ![s] = Append(@, [pkt |-> r])]
    /\ res_q' = [res_q EXCEPT ![s] = Tail(@)]
    /\ UNCHANGED <<overflow_checks, store, codec, lock, client, users, channels, st, channel_name, subs, socket,
                   nreq, granted, last>>

response_handler(s) ==
    /\ res_q[s] # <<>>
    /\ Len(sock_q[s]) < QUEUE_CAPACITY
    /\ LET r == Head(res_q[s])
       IN  /\ id' = IF r.type = "LoginRes" /\ r.result.ok
                    THEN [id EXCEPT ![s] = r.result.val]
                    ELSE id
           /\ sock_q' = [sock_q EXCEPT ![s] = Append(@, [pkt |-> r])]
    /\ res_q' = [res_q EXCEPT ![s] = Tail(@)]
    /\ UNCHANGED <<overflow_checks, store, codec, lock, client, users, channels, st, channel_name, subs, socket,
                   nreq, granted, last>>

\* --------------------------------------------------------- message_handler
\* `sock_tx.send(msg.as_json_bytes()).await`, the packet with its history
Forward(s, sub, e) ==
    /\ Len(sock_q[s]) < QUEUE_CAPACITY
    /\ sock_q' = [sock_q EXCEPT ![s] =
          Append(@, [pkt |-> e.pkt, src |-> e.src, chan |-> e.chan, self |-> e.self,
                     away |-> e.away, gone |-> e.gone, at |-> e.at, gate |-> sub.seen])]

\* (mutant) the lag signal ends the task
message_handler_recv_lag_break(s, i) ==
    /\ i \in DOMAIN subs[s]
    /\ LET sub == subs[s][i]
       IN  /\ sub.inbox # <<>> \/ sub.lagged
           /\ IF sub.lagged
              THEN /\ subs' = [subs EXCEPT ![s] = RemoveAt(@, i)]
                   /\ UNCHANGED sock_q
              ELSE LET e == Head(sub.inbox)
                       rest == [sub EXCEPT !.inbox = Tail(@)]
                   IN  IF e.pkt.type = "Message"
                       THEN /\ subs' = [subs EXCEPT ![s][i] = rest]
                            /\ IF ~sub.connected \/ id[s] = e.pkt.id
                               THEN UNCHANGED sock_q
                               ELSE Forward(s, sub, e)
                       ELSE /\ subs' = [subs EXCEPT ![s][i] =
                                   [rest EXCEPT !.connected = TRUE, !.seen = TRUE]]
                            /\ UNCHANGED sock_q
    /\ UNCHANGED <<overflow_checks, store, codec, lock, client, users, channels, st, id,
                   channel_name, res_q, socket, nreq, granted, last>>

\* the recv branch of the select: one packet of the bus
message_handler_recv(s, i) ==
    /\ i \in DOMAIN subs[s]
    /\ LET sub == subs[s][i]
       IN  /\ sub.inbox # <<>> \/ sub.lagged
           /\ IF sub.lagged
              THEN /\ subs' = [subs EXCEPT ![s][i].lagged = FALSE]
                   /\ UNCHANGED sock_q
              ELSE LET e == Head(sub.inbox)
                       rest == [sub EXCEPT !.inbox = Tail(@)]
                   IN  IF e.pkt.type = "Message"
                       THEN /\ subs' = [subs EXCEPT ![s][i] = rest]
                            /\ IF ~sub.connected \/ id[s] = e.pkt.id
                               THEN UNCHANGED sock_q
                               ELSE Forward(s, sub, e)
                       ELSE /\ subs' = [subs EXCEPT ![s][i] =
                                   [rest EXCEPT !.connected = TRUE, !.seen = TRUE]]
                            /\ UNCHANGED sock_q
    /\ UNCHANGED <<overflow_checks, store, codec, lock, client, users, channels, st, id, channel_name, res_q,
                   socket, nreq, granted, last>>

\* the cancel branch of the select: the task ends and drops its receiver
message_handler_cancelled(s, i) ==
    /\ i \in DOMAIN subs[s]
    /\ subs[s][i].cancelled
    /\ subs' = [subs EXCEPT ![s] = RemoveAt(@, i)]
    /\ UNCHANGED <<overflow_checks, store, codec, lock, client, users, channels, st, id, channel_name, res_q,
                   sock_q, socket, nreq, granted, last>>

\* ----------------------------------------------------------- stream_sender
\* `wr.write_all(&msg).await` on the next frame of the outbound queue
write_all(s) ==
    /\ sock_q[s] # <<>>
    /\ socket' = [socket EXCEPT ![s] = Head(sock_q[s])]
    /\ sock_q' = [sock_q EXCEPT ![s] = Tail(@)]
    /\ UNCHANGED <<overflow_checks, store, codec, lock, users, channels, st, id, channel_name, subs,
                   res_q, nreq, granted, last>>

stream_sender(s) == write_all(s) /\ UNCHANGED client

\* -------------------------------------------------------------------- Next
\* a session has one subscriber at accept and one more per goto
SubIndex == 1..(MaxMoveFrames + 2)

\* the tasks the coordinators spawn
Tasks ==
    \/ \E s \in Sessions : response_handler(s)
    \/ \E s \in Sessions, i \in SubIndex : message_handler_recv(s, i)
    \/ \E s \in Sessions, i \in SubIndex : message_handler_cancelled(s, i)
    \/ \E s \in Sessions : stream_sender(s)

\* the same tasks where no cancellation token is ever cancelled
Pipeline ==
    \/ \E s \in Sessions : response_handler(s)
    \/ \E s \in Sessions, i \in SubIndex : message_handler_recv(s, i)
    \/ \E s \in Sessions : stream_sender(s)

\* the tasks that carry a publication to the sockets; where no arm replies
\* the responder stays blocked in its recv
Relay ==
    \/ \E s \in Sessions, i \in SubIndex : message_handler_recv(s, i)
    \/ \E s \in Sessions : stream_sender(s)

Next ==
    \/ \E s \in Sessions : Accept(s)
    \/ FramesLeft(MaxFrames) /\ \E s \in Sessions, info \in LoginInputs : LoginReq(s, info)
    \/ FramesLeft(MaxFrames) /\ \E s \in Sessions, name \in GotoInputs : GotoReq(s, name)
    \/ FramesLeft(MaxFrames) /\ \E s \in Sessions : \E i \in MessageInputs(s) : MessageReq(s, i)
    \/ FramesLeft(MaxFrames) /\ \E s \in Sessions : ExitReq(s)
    \/ \E s \in Sessions : SocketClosed(s)
    \/ Tasks

Spec == Init /\ [][Next]_vars

\* Clients that log in as guests, go to `dev` and chat: one frame more.
NextMove ==
    \/ \E s \in Sessions : Accept(s)
    \/ FramesLeft(MaxMoveFrames) /\ \E s \in Sessions : LoginReq(s, GuestLogin)
    \/ FramesLeft(MaxMoveFrames) /\ \E s \in Sessions : GotoReq(s, "dev")
    \/ FramesLeft(MaxMoveFrames) /\ \E s \in Sessions : \E i \in MessageInputs(s) : MessageReq(s, i)
    \/ Tasks

SpecMove == Init /\ [][NextMove]_vars

\* ------------------------------------------------------- a crowded server
\* `public` after ng guests and nu registered users have logged in on other
\* connections, which stay silent from then on.  Their guest numbers lie
\* outside the ones the generator draws here.
UserId(k) == <<"user_", ToString(k)>>

CrowdedState(ng, nu) ==
    [names |-> {GuestId(MaxGuestNum + k) : k \in 1..ng} \cup {UserId(k) : k \in 1..nu},
     num_user |-> nu, num_guest |-> ng]

InitCrowded ==
    /\ overflow_checks \in BOOLEAN
    /\ store = "up"
    /\ codec = NoCodec
    /\ lock = NoLock
    /\ client = NoClient
    /\ users = {[id |-> <<"root">>, password |-> <<"alpine">>]}
                 \cup {[id |-> UserId(k), password |-> <<"alpine">>] : k \in 1..NUM_MAX_USER}
    /\ \E ng \in {NUM_MAX_GUEST - 1, NUM_MAX_GUEST}, nu \in {NUM_MAX_USER - 1, NUM_MAX_USER} :
          channels = [with_system_channels EXCEPT ![DEFAULT_CHANNEL] = CrowdedState(ng, nu)]
    /\ st = [s \in Sessions |-> "idle"]
    /\ id = [s \in Sessions |-> EmptyString]
    /\ channel_name = [s \in Sessions |-> DEFAULT_CHANNEL]
    /\ subs = [s \in Sessions |-> <<>>]
    /\ res_q = [s \in Sessions |-> <<>>]
    /\ sock_q = [s \in Sessions |-> <<>>]
    /\ socket = [s \in Sessions |-> NoFrame]
    /\ nreq = [s \in Sessions |-> 0]
    /\ granted = [s \in Sessions |-> EmptyString]
    /\ last = [s \in Sessions |-> NoRequest]

NextCrowded ==
    \/ \E s \in Sessions : Accept(s)
    \/ FramesLeft(MaxCrowdedFrames) /\ \E s \in Sessions, info \in LoginInputs : LoginReq(s, info)
    \/ FramesLeft(MaxCrowdedFrames) /\ \E s \in Sessions : GotoReq(s, "dev")
    \/ Tasks

SpecCrowded == InitCrowded /\ [][NextCrowded]_vars

\* ------------------------------------------------------------ a chat room
\* Every connection has logged in as a guest on `public`, one after the
\* other, and every task has run until nothing was left to do.
ArmedSubscriber ==
    [NewSubscriber(DEFAULT_CHANNEL, "accept") EXCEPT !.connected = TRUE, !.seen = TRUE]

\* the frame written last to the socket of s
LastWritten(s) ==
    IF s < MaxSessions
    THEN [pkt |-> MessageConnection(GuestId(MaxSessions - 1)), src |-> MaxSessions,
          chan |-> DEFAULT_CHANNEL, self |-> {MaxSessions}, away |-> {}, gone |-> {},
          at |-> MaxSessions - 1, gate |-> TRUE]
    ELSE [pkt |-> LoginRes(Ok(GuestId(s - 1)))]

InitChat ==
    /\ overflow_checks \in BOOLEAN
    /\ store = "up"
    /\ codec = NoCodec
    /\ lock = NoLock
    /\ client = NoClient
    /\ users = {[id |-> <<"root">>, password |-> <<"alpine">>]}
    /\ channels = [with_system_channels EXCEPT ![DEFAULT_CHANNEL] =
                      [names |-> {GuestId(s - 1) : s \in Sessions},
                       num_user |-> 0, num_guest |-> MaxSessions]]
    /\ st = [s \in Sessions |-> "read"]
    /\ id = [s \in Sessions |-> GuestId(s - 1)]
    /\ channel_name = [s \in Sessions |-> DEFAULT_CHANNEL]
    /\ subs = [s \in Sessions |-> <<ArmedSubscriber>>]
    /\ res_q = [s \in Sessions |-> <<>>]
    /\ sock_q = [s \in Sessions |-> <<>>]
    /\ socket = [s \in Sessions |-> LastWritten(s)]
    /\ nreq = [s \in Sessions |-> 1]
    /\ granted = [s \in Sessions |-> GuestId(s - 1)]
    /\ last = [s \in Sessions |-> [type |-> "LoginReq", login_info |-> GuestLogin]]

ChatGotoInputs == {DEFAULT_CHANNEL, "dev"}

\* the frames of the logins are behind; MaxChatFrames more are read
NextChat ==
    \/ FramesLeft(MaxSessions + MaxChatFrames)
          /\ \E s \in Sessions, name \in ChatGotoInputs : GotoReq(s, name)
    \/ FramesLeft(MaxSessions + MaxChatFrames)
          /\ \E s \in Sessions : \E i \in MessageInputs(s) : MessageReq(s, i)
    \/ FramesLeft(MaxSessions + MaxChatFrames)
          /\ \E s \in Sessions, item \in FetchInputs : FetchReq(s, item)
    \/ Tasks

SpecChat == InitChat /\ [][NextChat]_vars

\* ------------------------------------------------------------ a slow client
\* The chat room again; since then the last session has sent one Message
\* more than an outbound queue holds, and the client of session 1 has
\* stopped reading its socket: its writer is stuck in the write of the first
\* of them and the others fill its outbound queue.
SlowSession == 1
Talker == MaxSessions

Talk(k) ==
    [pkt |-> ChatMessage(GuestId(Talker - 1)), src |-> Talker, chan |-> DEFAULT_CHANNEL,
     self |-> {Talker}, away |-> {}, gone |-> {}, at |-> MaxSessions + k, gate |-> TRUE]

InitSlow ==
    /\ overflow_checks \in BOOLEAN
    /\ store = "up"
    /\ codec = NoCodec
    /\ lock = NoLock
    /\ client = NoClient
    /\ users = {[id |-> <<"root">>, password |-> <<"alpine">>]}
    /\ channels = [with_system_channels EXCEPT ![DEFAULT_CHANNEL] =
                      [names |-> {GuestId(s - 1) : s \in Sessions},
                       num_user |-> 0, num_guest |-> MaxSessions]]
    /\ st = [s \in Sessions |-> "read"]
    /\ id = [s \in Sessions |-> GuestId(s - 1)]
    /\ channel_name = [s \in Sessions |-> DEFAULT_CHANNEL]
    /\ subs = [s \in Sessions |-> <<ArmedSubscriber>>]
    /\ res_q = [s \in Sessions |-> <<>>]
    /\ sock_q = [s \in Sessions |->
                    IF s = SlowSession THEN [k \in 1..QUEUE_CAPACITY |-> Talk(k)] ELSE <<>>]
    /\ socket = [s \in Sessions |->
                    IF s = Talker THEN LastWritten(s)
                    ELSE IF s = SlowSession THEN Talk(0) ELSE Talk(QUEUE_CAPACITY)]
    /\ nreq = [s \in Sessions |-> IF s = Talker THEN QUEUE_CAPACITY + 2 ELSE 1]
    /\ granted = [s \in Sessions |-> GuestId(s - 1)]
    /\ last = [s \in Sessions |->
                  IF s = Talker THEN ChatMessage(GuestId(Talker - 1))
                  ELSE [type |-> "LoginReq", login_info |-> GuestLogin]]

SlowFramesLeft == FramesLeft(MaxSessions + QUEUE_CAPACITY + 1 + MaxSlowFrames)

\* the writer of the slow session stays in its write
NextSlow ==
    \/ SlowFramesLeft /\ \E s \in Sessions : \E i \in MessageInputs(s) : MessageReq(s, i)
    \/ SlowFramesLeft /\ \E s \in Sessions : FetchReq(s, "list")
    \/ \E s \in Sessions : response_handler(s)
    \/ \E s \in Sessions, i \in SubIndex : message_handler_recv(s, i)
    \/ \E s \in Sessions \ {SlowSession} : stream_sender(s)

SpecSlow == InitSlow /\ [][NextSlow]_vars

\* -------------------------------------------------------- credential store
StartsWith(name, prefix) == Len(name) >= 1 /\ name[1] = prefix

\* str::len of the tokens used as passwords
TokenLen(tok) ==
    CASE tok = "abc" -> 3
      [] tok = "abcd" -> 4
      [] tok = "toor" -> 4
      [] tok = "alpine" -> 6

RECURSIVE len(_)
len(str) == IF str = <<>> THEN 0 ELSE TokenLen(Head(str)) + len(Tail(str))

RegisterRes(r) == [type |-> "RegisterRes", result |-> r]

\* (mutant) no id is reserved
insert_reserved_too(user) ==
    IF len(user.password) < 4
    THEN [panic |-> FALSE, rows |-> users,
          result |-> Err(<<"too short password! (password >= 4)">>)]
    ELSE IF store = "down"
    THEN [panic |-> TRUE, rows |-> users, result |-> Err(<<>>)]
    ELSE IF store = "failing" \/ \E u \in users : u.id = user.id
    THEN [panic |-> FALSE, rows |-> users,
          result |-> Err(<<"Failed to insert a new user: ">>)]
    ELSE [panic |-> FALSE, rows |-> users \cup {user}, result |-> Ok(<<>>)]

\* User::insert: the result, the rows of the table afterwards, and whether
\* the unwrap of pool.get_conn() panics.  `id` is the primary key.
insert(user) ==
    IF StartsWith(user.id, "guest_") \/ StartsWith(user.id, "root")
    THEN [panic |-> FALSE, rows |-> users, result |-> Err(<<"Reserved id format">>)]
    ELSE IF len(user.password) < 4
    THEN [panic |-> FALSE, rows |-> users,
          result |-> Err(<<"too short password! (password >= 4)">>)]
    ELSE IF store = "down"
    THEN [panic |-> TRUE, rows |-> users, result |-> Err(<<>>)]
    ELSE IF store = "failing" \/ \E u \in users : u.id = user.id
    THEN [panic |-> FALSE, rows |-> users,
          result |-> Err(<<"Failed to insert a new user: ">>)]
    ELSE [panic |-> FALSE, rows |-> users \cup {user}, result |-> Ok(<<>>)]

RegisterInputs ==
    { [id |-> <<"alice">>, password |-> <<"abcd">>],
      [id |-> <<"alice">>, password |-> <<"toor">>],
      [id |-> <<"alice">>, password |-> <<"abc">>],
      [id |-> <<"guest_", "7">>, password |-> <<"abcd">>],
      [id |-> <<"root", "er">>, password |-> <<"abcd">>] }

\* RegisterReq arm
RegisterReq(s, user) ==
    /\ Reads(s, [type |-> "RegisterReq", user |-> user])
    /\ IF insert(user).panic
       THEN Panic(s)
       ELSE /\ users' = insert(user).rows
            /\ Reply(s, RegisterRes(insert(user).result))
            /\ UNCHANGED <<overflow_checks, store, codec, lock, client, channels, st, id, channel_name,
                           subs, sock_q, socket, granted>>

StoreStates == {"up", "down", "failing"}

\* the store service goes down, starts failing, or recovers
StoreFlips(v) ==
    /\ store # v
    /\ store' = v
    /\ UNCHANGED <<overflow_checks, codec, lock, client, users, channels, st, id, channel_name, subs,
                   res_q, sock_q, socket, nreq, granted, last>>

StoreLoginInputs ==
    { [guest |-> FALSE, id |-> Some(<<"root">>), password |-> Some(<<"alpine">>)],
      [guest |-> FALSE, id |-> Some(<<"alice">>), password |-> Some(<<"abcd">>)] }

NextStore ==
    \/ \E s \in Sessions : Accept(s)
    \/ FramesLeft(MaxStoreFrames) /\ \E s \in Sessions, u \in RegisterInputs : RegisterReq(s, u)
    \/ FramesLeft(MaxStoreFrames) /\ \E s \in Sessions, info \in StoreLoginInputs : LoginReq(s, info)
    \/ \E v \in StoreStates : StoreFlips(v)
    \/ Pipeline

SpecStore == Init /\ [][NextStore]_vars

\* ---------------------------------------------------------------- the wire
\* What a read returns: whether the bytes are UTF-8, whether the text is
\* JSON, whether the JSON is an object, the string under "type" if there is
\* one, whether the object deserializes into the struct of that type, and the
\* packet it then gives.
WellFormed(pkt) ==
    [utf8 |-> TRUE, json |-> TRUE, object |-> TRUE, type |-> Some(pkt.type),
     complete |-> TRUE, body |-> pkt]

Incomplete(ty) ==
    [utf8 |-> TRUE, json |-> TRUE, object |-> TRUE, type |-> Some(ty),
     complete |-> FALSE, body |-> NoRequest]

NotUtf8 ==
    [utf8 |-> FALSE, json |-> FALSE, object |-> FALSE, type |-> None,
     complete |-> FALSE, body |-> NoRequest]

NotJson == [NotUtf8 EXCEPT !.utf8 = TRUE]
NotObject == [NotJson EXCEPT !.json = TRUE]
NoType == [NotObject EXCEPT !.object = TRUE]

STRUCT_TYPES ==
    {"RegisterReq", "RegisterRes", "LoginReq", "LoginRes", "FetchReq", "FetchRes",
     "Message"}
UNIT_TYPES == {"Connected", "Exit"}

\* PacketType::from_str: the Option it returns, or the panic of its unwrap
from_str(data) ==
    IF ~data.json \/ ~data.object \/ is_none(data.type)
    THEN [panic |-> FALSE, packet |-> None]
    ELSE IF unwrap(data.type) \in STRUCT_TYPES
    THEN IF data.complete
         THEN [panic |-> FALSE, packet |-> Some(data.body)]
         ELSE [panic |-> TRUE, packet |-> None]
    ELSE IF unwrap(data.type) \in UNIT_TYPES
    THEN [panic |-> FALSE, packet |-> Some([type |-> unwrap(data.type)])]
    ELSE [panic |-> FALSE, packet |-> None]

WireInputs ==
    { NotUtf8, NotJson, NotObject, NoType, Incomplete("Bogus"),
      Incomplete("LoginReq"), Incomplete("Message"),
      WellFormed([type |-> "LoginReq", login_info |-> GuestLogin]),
      WellFormed([type |-> "RegisterReq",
                  user |-> [id |-> <<"alice">>, password |-> <<"abcd">>]]),
      WellFormed(ChatMessage(EmptyString)),
      WellFormed([type |-> "Connected"]),
      WellFormed([type |-> "Exit"]) }

Undecoded(data) == [type |-> "Undecoded", data |-> data]

\* `continue`, the None arm and the `_ => {}` arm: on to the next read
Ignore(s, req) ==
    /\ Reads(s, req)
    /\ UNCHANGED <<overflow_checks, store, codec, lock, client, users, channels, st, id, channel_name,
                   subs, res_q, sock_q, socket, granted>>

\* one turn of the read loop on the bytes `data`
Frame(s, data) ==
    IF ~data.utf8
    THEN Ignore(s, Undecoded(data))
    ELSE IF from_str(data).panic
    THEN Reads(s, Undecoded(data)) /\ Panic(s)
    ELSE IF is_none(from_str(data).packet)
    THEN Ignore(s, Undecoded(data))
    ELSE LET pkt == unwrap(from_str(data).packet)
         IN  CASE pkt.type = "LoginReq" -> LoginReq(s, pkt.login_info)
               [] pkt.type = "RegisterReq" -> RegisterReq(s, pkt.user)
               [] pkt.type = "Message" -> MessageReq(s, pkt.id)
               [] pkt.type = "Exit" -> ExitReq(s)
               [] pkt.type = "FetchReq" -> FetchReq(s, pkt.item)
               [] pkt.type \in {"Connected", "LoginRes", "RegisterRes", "FetchRes"}
                    -> Ignore(s, pkt)

NextWire ==
    \/ \E s \in Sessions : Accept(s)
    \/ FramesLeft(MaxWireFrames) /\ \E s \in Sessions, data \in WireInputs : Frame(s, data)
    \/ Pipeline

SpecWire == Init /\ [][NextWire]_vars

\* ------------------------------------------------------- the registry lock
\* The arms that take `channels.lock().await`, cut at their await points: the
\* frame is parsed, the lock is acquired, the section runs to the end of the
\* guard's scope (and through the publications behind it, which do not
\* await), and the reply is sent on the responder's queue.

\* (mutant) the guard lives until the reply has been sent
lock_scope_reply == {"held", "send"}

\* the positions of an arm at which the MutexGuard is alive
lock_scope == {"held"}

Move(s, pos, req, reply) ==
    lock' = [holder |-> IF pos \in lock_scope THEN s
                        ELSE IF lock.holder = s THEN 0 ELSE lock.holder,
             pc |-> [lock.pc EXCEPT ![s] = [at |-> pos, req |-> req, reply |-> reply]]]

LockInputs ==
    { [type |-> "LoginReq", login_info |-> GuestLogin],
      [type |-> "FetchReq", item |-> "list"],
      [type |-> "GotoReq", channel_name |-> "dev"],
      [type |-> "Exit"] }

\* rd.read returns a frame of an arm that locks the registry
Parse(s, req) ==
    /\ lock.pc[s].at = "read"
    /\ Reads(s, req)
    /\ Move(s, "lock", req, NoRequest)
    /\ UNCHANGED <<overflow_checks, store, codec, client, users, channels, st, id,
                   channel_name, subs, res_q, sock_q, socket, granted>>

\* channels.lock().await returns
Lock(s) ==
    /\ lock.pc[s].at = "lock"
    /\ lock.holder = 0
    /\ Move(s, "held", lock.pc[s].req, NoRequest)
    /\ UNCHANGED <<overflow_checks, store, codec, client, users, channels, st, id,
                   channel_name, subs, res_q, sock_q, socket, nreq, granted, last>>

\* LoginReq arm from the lock to the reply: membership, publications
LoginSection(s, ch2, res) ==
    /\ channels' = [channels EXCEPT ![channel_name[s]] = ch2]
    /\ granted' = IF res.ok THEN [granted EXCEPT ![s] = res.val] ELSE granted
    /\ LoginPublish(s, res)
    /\ Move(s, "send", lock.pc[s].req, LoginRes(res))
    /\ UNCHANGED <<overflow_checks, store, codec, client, users, st, id, channel_name,
                   res_q, sock_q, socket, nreq, last>>

\* the arm from the lock to the end of the guard's scope
Section(s) ==
    /\ lock.pc[s].at = "held"
    /\ LET req == lock.pc[s].req
           c == channel_name[s]
       IN  CASE req.type = "LoginReq" ->
                  IF UGe(channels[c].num_guest, NUM_MAX_GUEST)
                  THEN LoginSection(s, channels[c], Err(<<"too many guests">>))
                  ELSE \E n \in GuestNums \cup {MaxSessions} :
                          /\ ~has_user(channels[c], GuestId(n))
                          /\ LoginSection(s, add_connection(channels[c], GuestId(n)),
                                          Ok(GuestId(n)))
             [] req.type = "FetchReq" ->
                  /\ Move(s, "send", req, fetch(s, req.item))
                  /\ UNCHANGED <<overflow_checks, store, codec, client, users, channels,
                                 st, id, channel_name, subs, res_q, sock_q, socket, nreq,
                                 granted, last>>
             [] req.type = "GotoReq" ->
                  /\ IF get_channel(req.channel_name)
                     THEN /\ GotoSwitch(s, req.channel_name)
                          /\ Move(s, "send", req, GotoRes(Ok(<<req.channel_name>>)))
                     ELSE /\ Move(s, "send", req,
                                  GotoRes(Err(<<"Invalid or not permitted to join the channel">>)))
                          /\ UNCHANGED <<subs, channel_name>>
                  /\ UNCHANGED <<overflow_checks, store, codec, client, users, channels,
                                 st, id, res_q, sock_q, socket, nreq, granted, last>>
             [] req.type = "Exit" ->
                  IF leave_underflows(channels[c], id[s]) /\ overflow_checks
                  THEN /\ st' = [st EXCEPT ![s] = "panicked"]
                       /\ Move(s, "read", req, NoRequest)
                       /\ UNCHANGED <<overflow_checks, store, codec, client, users,
                                      channels, id, channel_name, subs, res_q, sock_q,
                                      socket, nreq, granted, last>>
                  ELSE /\ channels' = [channels EXCEPT ![c] = leave_user(@, id[s])]
                       /\ subs' = Send(subs, c, Envelope(MessageDisconnection(id[s]), s, c,
                                                         granted, channel_name))
                       /\ st' = [st EXCEPT ![s] = "closed"]
                       /\ Move(s, "read", req, NoRequest)
                       /\ UNCHANGED <<overflow_checks, store, codec, client, users, id,
                                      channel_name, res_q, sock_q, socket, nreq, granted,
                                      last>>

\* res_tx.send(packet).await returns
SendReply(s) ==
    /\ lock.pc[s].at = "send"
    /\ Reply(s, lock.pc[s].reply)
    /\ Move(s, "read", NoRequest, NoRequest)
    /\ UNCHANGED <<overflow_checks, store, codec, client, users, channels, st, id,
                   channel_name, subs, sock_q, socket, nreq, granted, last>>

\* the slow client again, after it has asked for the list until the
\* responder's queue is full as well
StalledReply ==
    FetchRes("list", Ok([user_list |-> {GuestId(s - 1) : s \in Sessions},
                         num_user |-> 0, num_guest |-> MaxSessions]))

InitStalled ==
    /\ overflow_checks \in BOOLEAN
    /\ store = "up"
    /\ codec = NoCodec
    /\ lock = NoLock
    /\ client = NoClient
    /\ users = {[id |-> <<"root">>, password |-> <<"alpine">>]}
    /\ channels = [with_system_channels EXCEPT ![DEFAULT_CHANNEL] =
                      [names |-> {GuestId(s - 1) : s \in Sessions},
                       num_user |-> 0, num_guest |-> MaxSessions]]
    /\ st = [s \in Sessions |-> "read"]
    /\ id = [s \in Sessions |-> GuestId(s - 1)]
    /\ channel_name = [s \in Sessions |-> DEFAULT_CHANNEL]
    /\ subs = [s \in Sessions |-> <<ArmedSubscriber>>]
    /\ res_q = [s \in Sessions |->
                   IF s = SlowSession THEN [k \in 1..QUEUE_CAPACITY |-> StalledReply]
                   ELSE <<>>]
    /\ sock_q = [s \in Sessions |->
                    IF s = SlowSession THEN [k \in 1..QUEUE_CAPACITY |-> Talk(k)] ELSE <<>>]
    /\ socket = [s \in Sessions |->
                    IF s = Talker THEN LastWritten(s)
                    ELSE IF s = SlowSession THEN Talk(0) ELSE Talk(QUEUE_CAPACITY)]
    /\ nreq = [s \in Sessions |->
                  IF s = Talker THEN QUEUE_CAPACITY + 2
                  ELSE IF s = SlowSession THEN QUEUE_CAPACITY + 1 ELSE 1]
    /\ granted = [s \in Sessions |-> GuestId(s - 1)]
    /\ last = [s \in Sessions |->
                  IF s = Talker THEN ChatMessage(GuestId(Talker - 1))
                  ELSE IF s = SlowSession THEN [type |-> "FetchReq", item |-> "list"]
                  ELSE [type |-> "LoginReq", login_info |-> GuestLogin]]

LockFramesLeft == FramesLeft(MaxSessions + 2 * QUEUE_CAPACITY + 1 + MaxLockFrames)

NextLock ==
    \/ LockFramesLeft /\ \E s \in Sessions, req \in LockInputs : Parse(s, req)
    \/ \E s \in Sessions : Lock(s)
    \/ \E s \in Sessions : Section(s)
    \/ \E s \in Sessions : SendReply(s)
    \/ \E s \in Sessions : response_handler(s)
    \/ \E s \in Sessions, i \in SubIndex : message_handler_recv(s, i)
    \/ \E s \in Sessions, i \in SubIndex : message_handler_cancelled(s, i)
    \/ \E s \in Sessions \ {SlowSession} : stream_sender(s)

SpecLock == InitStalled /\ [][NextLock]_vars

\* ------------------------------------------------------ a lagging subscriber
\* The chat room again; since then the last session has sent as many
\* Messages as the bus holds and the subscriber of session 1 has not run.
Backlog(k) ==
    [pkt |-> ChatMessage(GuestId(Talker - 1)), src |-> Talker, chan |-> DEFAULT_CHANNEL,
     at |-> MaxSessions + k - 1, self |-> {Talker}, away |-> {}, gone |-> {}]

InitLag ==
    /\ overflow_checks \in BOOLEAN
    /\ store = "up"
    /\ codec = NoCodec
    /\ lock = NoLock
    /\ client = NoClient
    /\ users = {[id |-> <<"root">>, password |-> <<"alpine">>]}
    /\ channels = [with_system_channels EXCEPT ![DEFAULT_CHANNEL] =
                      [names |-> {GuestId(s - 1) : s \in Sessions},
                       num_user |-> 0, num_guest |-> MaxSessions]]
    /\ st = [s \in Sessions |-> "read"]
    /\ id = [s \in Sessions |-> GuestId(s - 1)]
    /\ channel_name = [s \in Sessions |-> DEFAULT_CHANNEL]
    /\ subs = [s \in Sessions |->
                  IF s = SlowSession
                  THEN <<[ArmedSubscriber EXCEPT
                            !.inbox = [k \in 1..BUS_CAPACITY |-> Backlog(k)]]>>
                  ELSE <<ArmedSubscriber>>]
    /\ res_q = [s \in Sessions |-> <<>>]
    /\ sock_q = [s \in Sessions |-> <<>>]
    /\ socket = [s \in Sessions |-> LastWritten(s)]
    /\ nreq = [s \in Sessions |-> IF s = Talker THEN BUS_CAPACITY + 1 ELSE 1]
    /\ granted = [s \in Sessions |-> GuestId(s - 1)]
    /\ last = [s \in Sessions |->
                  IF s = Talker THEN ChatMessage(GuestId(Talker - 1))
                  ELSE [type |-> "LoginReq", login_info |-> GuestLogin]]

LagBase == MaxSessions + BUS_CAPACITY

NextLag ==
    \/ FramesLeft(LagBase + MaxLagFrames)
          /\ \E s \in Sessions : \E i \in MessageInputs(s) : MessageReq(s, i)
    \/ Relay

SpecLag == InitLag /\ [][NextLag]_vars

\* ------------------------------------------------------- channel creation
NameInputs ==
    {"public", "main", "dev", "", "ab", "abc", "_x1", "___", "Room_2", "a1_", "dev2",
     "x_y", "1abc", "a-b", "a b", "ab!", "e_acute t e_acute", "a e_acute"}

\* a call of create_channel on the registry of the chat room
CreateChannel(name) ==
    /\ channels' = create_channel(channels, name).reg
    /\ UNCHANGED <<overflow_checks, store, codec, lock, client, users, st, id,
                   channel_name, subs, res_q, sock_q, socket, nreq, granted, last>>

NextCreate == \E name \in NameInputs : CreateChannel(name)

SpecCreate == InitChat /\ [][NextCreate]_vars

\* ---------------------------------------------------------- account logins
AccountInputs ==
    { [guest |-> FALSE, id |-> Some(<<"root">>), password |-> Some(<<"alpine">>)],
      [guest |-> FALSE, id |-> Some(<<"root">>), password |-> Some(<<"toor">>)],
      [guest |-> FALSE, id |-> Some(<<"nobody">>), password |-> Some(<<"alpine">>)],
      [guest |-> FALSE, id |-> Some(<<"root", QUOTE_COMMENT>>), password |-> Some(<<"toor">>)],
      [guest |-> FALSE, id |-> Some(<<"nobody", QUOTE_COMMENT>>),
       password |-> Some(<<"toor">>)] }

NextAccount ==
    \/ \E s \in Sessions : Accept(s)
    \/ FramesLeft(MaxAccountFrames)
          /\ \E s \in Sessions, info \in AccountInputs : LoginReq(s, info)
    \/ Pipeline

SpecAccount == Init /\ [][NextAccount]_vars

\* ------------------------------------------------------------------ a burst
\* The chat room, where session 1 logged in last and its subscriber has not
\* run since the connection was accepted: the bus holds for it the Connected
\* of its login and the Messages the last session has sent since, one fewer
\* than its capacity; what was published before has been overwritten.
Arrival ==
    [pkt |-> Connected, src |-> SlowSession, chan |-> DEFAULT_CHANNEL,
     at |-> MaxSessions - 1, self |-> {}, away |-> {}, gone |-> {}]

Joined ==
    [pkt |-> MessageConnection(GuestId(SlowSession - 1)), src |-> SlowSession,
     chan |-> DEFAULT_CHANNEL, self |-> {SlowSession}, away |-> {}, gone |-> {},
     at |-> MaxSessions - 1, gate |-> TRUE]

InitBurst ==
    /\ overflow_checks \in BOOLEAN
    /\ store = "up"
    /\ codec = NoCodec
    /\ lock = NoLock
    /\ client = NoClient
    /\ users = {[id |-> <<"root">>, password |-> <<"alpine">>]}
    /\ channels = [with_system_channels EXCEPT ![DEFAULT_CHANNEL] =
                      [names |-> {GuestId(s - 1) : s \in Sessions},
                       num_user |-> 0, num_guest |-> MaxSessions]]
    /\ st = [s \in Sessions |-> "read"]
    /\ id = [s \in Sessions |-> GuestId(s - 1)]
    /\ channel_name = [s \in Sessions |-> DEFAULT_CHANNEL]
    /\ subs = [s \in Sessions |->
                  IF s = SlowSession
                  THEN <<[NewSubscriber(DEFAULT_CHANNEL, "accept") EXCEPT
                            !.inbox = <<Arrival>>
                                      \o [k \in 1..(BUS_CAPACITY - 1) |-> Backlog(k)],
                            !.lagged = TRUE]>>
                  ELSE <<ArmedSubscriber>>]
    /\ res_q = [s \in Sessions |-> <<>>]
    /\ sock_q = [s \in Sessions |-> <<>>]
    /\ socket = [s \in Sessions |->
                    IF s = SlowSession THEN [pkt |-> LoginRes(Ok(GuestId(s - 1)))]
                    ELSE IF s = Talker THEN Joined
                    ELSE Talk(BUS_CAPACITY - 2)]
    /\ nreq = [s \in Sessions |-> IF s = Talker THEN BUS_CAPACITY ELSE 1]
    /\ granted = [s \in Sessions |-> GuestId(s - 1)]
    /\ last = [s \in Sessions |->
                  IF s = Talker THEN ChatMessage(GuestId(Talker - 1))
                  ELSE [type |-> "LoginReq", login_info |-> GuestLogin]]

BurstFramesLeft == FramesLeft(MaxSessions + BUS_CAPACITY - 1 + MaxBurstFrames)

NextBurst ==
    \/ BurstFramesLeft /\ \E s \in Sessions : \E i \in MessageInputs(s) : MessageReq(s, i)
    \/ Relay

\* every spawned task is scheduled again and again
TasksFair ==
    \A s \in Sessions :
        /\ WF_vars(stream_sender(s))
        /\ \A i \in SubIndex : WF_vars(message_handler_recv(s, i))

SpecBurst == InitBurst /\ [][NextBurst]_vars /\ TasksFair

\* ------------------------------------------------------ leaving the chat room
NextQuit ==
    \/ FramesLeft(MaxSessions + MaxQuitFrames) /\ \E s \in Sessions : ExitReq(s)
    \/ FramesLeft(MaxSessions + MaxQuitFrames)
          /\ \E s \in Sessions : \E i \in MessageInputs(s) : MessageReq(s, i)
    \/ \E s \in Sessions : SocketClosed(s)
    \/ Relay

SpecQuit == InitChat /\ [][NextQuit]_vars

\* -------------------------------------------------------------- the client
\* client/mod.rs: the main task sends a request on the outgoing queue and
\* only then subscribes to the incoming broadcast and waits in consume_til;
\* consume_outgoings writes the queue to the socket; produce_incomings reads
\* the frames the server writes and broadcasts each to the receivers that
\* exist at that moment.  print_message_packets has a receiver of its own
\* and touches nothing the requests use.

\* serde_json::from_value::<P>: the derived Deserialize looks for the fields
\* of P and ignores the others, "type" included
Accepts(P, pkt) ==
    CASE P \in {"LoginRes", "GotoRes"} ->
            /\ "result" \in DOMAIN pkt
            /\ pkt.result.ok => pkt.type \in {"LoginRes", "GotoRes"}
      [] P = "RegisterRes" ->
            /\ "result" \in DOMAIN pkt
            /\ pkt.result.ok => pkt.type = "RegisterRes"
      [] P = "FetchRes" -> {"item", "result"} \subseteq DOMAIN pkt

\* the main task after `outgoing_tx.send(req).await`
Sent(c, req, P) ==
    [c EXCEPT !.pc = "sent", !.want = P, !.out = Append(@, req), !.reply = None,
              !.got = None]

\* run_client up to the guest handshake's send
run_client(s) ==
    /\ s <= MaxClients
    /\ client[s].pc = "off"
    /\ \A t \in Sessions : t < s => client[t].pc # "off"
    /\ client' = [client EXCEPT ![s] =
          Sent([pc |-> "off", want |-> "None", out |-> <<>>, written |-> <<>>,
                rx |-> None, reply |-> None, got |-> None, is_guest |-> TRUE,
                id |-> EmptyString, cmds |-> 0],
               [type |-> "LoginReq", login_info |-> GuestLogin], "LoginRes")]
    /\ UNCHANGED <<overflow_checks, store, codec, lock, users, channels, st, id, channel_name,
                   subs, res_q, sock_q, socket, nreq, granted, last>>

\* the lines of the user; Login::from_stdin gives None, and nothing is sent,
\* when the id or the password is empty
Commands ==
    { [cmd |-> "login", req |-> [type |-> "LoginReq", login_info |-> info]] :
         info \in {i \in LoginInputs : ~is_none(i.id) /\ ~is_none(i.password)} }
    \cup { [cmd |-> "register",
            req |-> [type |-> "RegisterReq",
                     user |-> [id |-> <<"alice">>, password |-> <<"abcd">>]]],
           [cmd |-> "fetch", req |-> [type |-> "FetchReq", item |-> "list"]],
           [cmd |-> "goto", req |-> [type |-> "GotoReq", channel_name |-> "dev"]] }

ResponseOf(cmd) ==
    CASE cmd = "login" -> "LoginRes"
      [] cmd = "register" -> "RegisterRes"
      [] cmd = "fetch" -> "FetchRes"
      [] cmd = "goto" -> "GotoRes"

\* handle_command on a line of the user, up to the send
handle_command(s, c) ==
    /\ client[s].pc = "idle"
    /\ client[s].cmds < MaxClientCommands
    /\ client' = [client EXCEPT ![s] =
          IF c.cmd = "login" /\ ~client[s].is_guest
          THEN [@ EXCEPT !.cmds = @ + 1]
          ELSE Sent([@ EXCEPT !.cmds = @ + 1], c.req, ResponseOf(c.cmd))]
    /\ UNCHANGED <<overflow_checks, store, codec, lock, users, channels, st, id, channel_name,
                   subs, res_q, sock_q, socket, nreq, granted, last>>

\* `incoming_tx.subscribe()`: a receiver of what is broadcast from now on
subscribe(s) ==
    /\ client[s].pc = "sent"
    /\ client' = [client EXCEPT ![s] = [@ EXCEPT !.pc = "waiting", !.rx = Some(<<>>)]]
    /\ UNCHANGED <<overflow_checks, store, codec, lock, users, channels, st, id, channel_name,
                   subs, res_q, sock_q, socket, nreq, granted, last>>

\* what the caller does with the response consume_til returned
Returned(c, pkt) ==
    IF c.want = "LoginRes" /\ c.cmds = 0
    THEN IF pkt.result.ok
         THEN [c EXCEPT !.pc = "idle", !.id = pkt.result.val]
         ELSE [c EXCEPT !.pc = "panicked"]
    ELSE IF c.want = "LoginRes" /\ pkt.result.ok
    THEN [c EXCEPT !.pc = "idle", !.is_guest = FALSE,
                   !.id = unwrap(c.written[Len(c.written)].login_info.id)]
    ELSE [c EXCEPT !.pc = "idle"]

\* one turn of consume_til's loop
consume_til(s) ==
    /\ client[s].pc = "waiting"
    /\ unwrap(client[s].rx) # <<>>
    /\ LET pkt == Head(unwrap(client[s].rx))
       IN  client' = [client EXCEPT ![s] =
              IF Accepts(client[s].want, pkt)
              THEN Returned([@ EXCEPT !.rx = None, !.got = Some(pkt)], pkt)
              ELSE [@ EXCEPT !.rx = Some(Tail(unwrap(@)))]]
    /\ UNCHANGED <<overflow_checks, store, codec, lock, users, channels, st, id, channel_name,
                   subs, res_q, sock_q, socket, nreq, granted, last>>

\* consume_outgoings: the next request is written to the socket
consume_outgoings(s) ==
    /\ client[s].pc # "off"
    /\ client[s].out # <<>>
    /\ client' = [client EXCEPT ![s] =
          [@ EXCEPT !.out = Tail(@), !.written = Append(@, Head(client[s].out))]]
    /\ UNCHANGED <<overflow_checks, store, codec, lock, users, channels, st, id, channel_name,
                   subs, res_q, sock_q, socket, nreq, granted, last>>

\* the coordinator reads the next frame the client has written
ClientFrame(s) ==
    /\ client[s].pc # "off"
    /\ nreq[s] < Len(client[s].written)
    /\ Frame(s, WellFormed(client[s].written[nreq[s] + 1]))

\* produce_incomings: the frame the writer task puts on the socket is read
\* and broadcast; the main task's receiver gets it if it exists
produce_incomings(s) ==
    /\ client[s].pc # "off"
    /\ write_all(s)
    /\ LET pkt == Head(sock_q[s]).pkt
           c == client[s]
       IN  client' = [client EXCEPT ![s] =
              [@ EXCEPT !.rx = IF is_none(c.rx) THEN None
                               ELSE Some(Append(unwrap(c.rx), pkt)),
                        !.reply = IF c.pc \in {"sent", "waiting"} /\ is_none(c.reply)
                                     /\ pkt.type = c.want
                                  THEN Some(pkt) ELSE c.reply]]

\* run_server accepts the connection of a client that has connected
Connection(s) == client[s].pc # "off" /\ Accept(s)

NextClient ==
    \/ \E s \in Sessions : run_client(s)
    \/ \E s \in Sessions : Connection(s)
    \/ \E s \in Sessions, c \in Commands : handle_command(s, c)
    \/ \E s \in Sessions : subscribe(s)
    \/ \E s \in Sessions : consume_til(s)
    \/ \E s \in Sessions : consume_outgoings(s)
    \/ \E s \in Sessions : ClientFrame(s)
    \/ \E s \in Sessions : produce_incomings(s)
    \/ \E s \in Sessions : response_handler(s)
    \/ \E s \in Sessions, i \in SubIndex : message_handler_recv(s, i)

\* every task of the client and of the server is scheduled again and again
ClientFair ==
    \A s \in Sessions :
        /\ WF_vars(Connection(s))
        /\ WF_vars(subscribe(s))
        /\ WF_vars(consume_til(s))
        /\ WF_vars(consume_outgoings(s))
        /\ WF_vars(ClientFrame(s))
        /\ WF_vars(produce_incomings(s))
        /\ WF_vars(response_handler(s))
        /\ \A i \in SubIndex : WF_vars(message_handler_recv(s, i))

SpecClient == Init /\ [][NextClient]_vars /\ ClientFair

\* ---------------------------------------------------------------- the codec
\* JSON values: an object is a record of its members, a string, null and an
\* embedded serde_json::Value are tagged, a boolean is itself
JString(x) == [str |-> x]
JNull == [null |-> TRUE]
JValue(x) == [value |-> x]

\* Option<String> as serde writes it: None is null, Some(x) is the string x
opt_json_empty(o) == IF is_none(o) THEN JString(EmptyString) ELSE JString(unwrap(o))

opt_json(o) == IF is_none(o) THEN JNull ELSE JString(unwrap(o))

\* Option<String> as serde reads it: a missing member or null is None
json_opt(j, f) ==
    IF f \notin DOMAIN j THEN None
    ELSE IF "null" \in DOMAIN j[f] THEN None
    ELSE Some(j[f].str)

\* Result<T, String> as serde writes it: {"Ok": t} or {"Err": e}
result_json(r, okv) == IF r.ok THEN [Ok |-> okv] ELSE [Err |-> JString(r.val)]

\* Serialize of each packet struct; #[serde(tag = "type")] adds the "type" member
to_value(v) ==
    CASE v.type = "Message" ->
           [type |-> JString(v.type), id |-> JString(v.id), msg |-> JString(v.msg),
            is_system |-> v.is_system]
      [] v.type = "RegisterReq" ->
           [type |-> JString(v.type),
            user |-> [id |-> JString(v.user.id), password |-> JString(v.user.password),
                      bio |-> opt_json(v.user.bio),
                      location |-> opt_json(v.user.location)]]
      [] v.type = "RegisterRes" ->
           [type |-> JString(v.type), result |-> result_json(v.result, JNull)]
      [] v.type = "LoginReq" ->
           [type |-> JString(v.type),
            login_info |-> [guest |-> v.login_info.guest,
                            id |-> opt_json(v.login_info.id),
                            password |-> opt_json(v.login_info.password)]]
      [] v.type = "LoginRes" ->
           [type |-> JString(v.type),
            result |-> IF v.result.ok THEN result_json(v.result, JString(v.result.val))
                       ELSE result_json(v.result, JNull)]
      [] v.type = "FetchReq" -> [type |-> JString(v.type), item |-> JString(v.item)]
      [] v.type = "FetchRes" ->
           [type |-> JString(v.type), item |-> JString(v.item),
            result |-> IF v.result.ok THEN result_json(v.result, JValue(v.result.val))
                       ELSE result_json(v.result, JNull)]
      [] v.type \in UNIT_TYPES -> [type |-> JString(v.type)]

IsString(j, f) == f \in DOMAIN j /\ "str" \in DOMAIN j[f]
IsOption(j, f) == f \notin DOMAIN j \/ "null" \in DOMAIN j[f] \/ "str" \in DOMAIN j[f]
IsResult(j, f, tag) ==
    /\ f \in DOMAIN j
    /\ \/ DOMAIN j[f] = {"Ok"} /\ tag \in DOMAIN j[f].Ok
       \/ DOMAIN j[f] = {"Err"} /\ "str" \in DOMAIN j[f].Err

\* whether serde_json::from_value gives Ok for the struct named by "type"
Deserializes(j) ==
    CASE j.type.str = "Message" ->
           IsString(j, "id") /\ IsString(j, "msg") /\ "is_system" \in DOMAIN j
      [] j.type.str = "RegisterReq" ->
           /\ "user" \in DOMAIN j
           /\ IsString(j.user, "id") /\ IsString(j.user, "password")
           /\ IsOption(j.user, "bio") /\ IsOption(j.user, "location")
      [] j.type.str = "RegisterRes" -> IsResult(j, "result", "null")
      [] j.type.str = "LoginReq" ->
           /\ "login_info" \in DOMAIN j
           /\ "guest" \in DOMAIN j.login_info
           /\ IsOption(j.login_info, "id") /\ IsOption(j.login_info, "password")
      [] j.type.str = "LoginRes" -> IsResult(j, "result", "str")
      [] j.type.str = "FetchReq" -> IsString(j, "item")
      [] j.type.str = "FetchRes" -> IsString(j, "item") /\ IsResult(j, "result", "value")
      [] OTHER -> FALSE

\* Deserialize of each packet struct: the "type" member is not a field
from_value(j) ==
    CASE j.type.str = "Message" ->
           [type |-> "Message", id |-> j.id.str, msg |-> j.msg.str,
            is_system |-> j.is_system]
      [] j.type.str = "RegisterReq" ->
           [type |-> "RegisterReq",
            user |-> [id |-> j.user.id.str, password |-> j.user.password.str,
                      bio |-> json_opt(j.user, "bio"),
                      location |-> json_opt(j.user, "location")]]
      [] j.type.str = "RegisterRes" ->
           [type |-> "RegisterRes",
            result |-> IF "Ok" \in DOMAIN j.result THEN Ok(<<>>)
                       ELSE Err(j.result.Err.str)]
      [] j.type.str = "LoginReq" ->
           [type |-> "LoginReq",
            login_info |-> [guest |-> j.login_info.guest,
                            id |-> json_opt(j.login_info, "id"),
                            password |-> json_opt(j.login_info, "password")]]
      [] j.type.str = "LoginRes" ->
           [type |-> "LoginRes",
            result |-> IF "Ok" \in DOMAIN j.result THEN Ok(j.result.Ok.str)
                       ELSE Err(j.result.Err.str)]
      [] j.type.str = "FetchReq" -> [type |-> "FetchReq", item |-> j.item.str]
      [] j.type.str = "FetchRes" ->
           FetchRes(j.item.str, IF "Ok" \in DOMAIN j.result THEN Ok(j.result.Ok.value)
                                ELSE Err(j.result.Err.str))

\* the text of the JSON object j, as what a read of it returns
Text(j) ==
    [utf8 |-> TRUE, json |-> TRUE, object |-> TRUE,
     type |-> IF IsString(j, "type") THEN Some(j.type.str) ELSE None,
     complete |-> IsString(j, "type") /\ Deserializes(j),
     body |-> IF IsString(j, "type") /\ Deserializes(j) THEN from_value(j)
              ELSE NoRequest]

\* AsJson::as_json_string
as_json_string(v) == Text(to_value(v))

CodecStrings == {EmptyString, <<"root">>, <<"null">>}
CodecOptions == {None, Some(EmptyString), Some(<<"null">>)}
CodecResults == {Ok(<<"root">>), Err(<<"root">>), Ok(EmptyString), Err(EmptyString)}

\* values of the nine packet structs
CodecPackets ==
    {[type |-> "Message", id |-> i, msg |-> m, is_system |-> b] :
        i \in CodecStrings, m \in CodecStrings, b \in BOOLEAN}
    \cup {[type |-> "RegisterReq",
           user |-> [id |-> i, password |-> <<"abcd">>, bio |-> b, location |-> l]] :
            i \in CodecStrings, b \in CodecOptions, l \in CodecOptions}
    \cup {RegisterRes(r) : r \in {Ok(<<>>), Err(EmptyString), Err(<<"Ok">>)}}
    \cup {[type |-> "LoginReq", login_info |-> [guest |-> g, id |-> i, password |-> p]] :
            g \in BOOLEAN, i \in CodecOptions, p \in CodecOptions}
    \cup {LoginRes(r) : r \in CodecResults}
    \cup {[type |-> "FetchReq", item |-> i] : i \in FetchInputs \cup {""}}
    \cup {FetchRes(i, r) : i \in {"list"},
                           r \in {Ok([user_list |-> {}, num_user |-> 0, num_guest |-> 0]),
                                  Ok([user_list |-> {<<"root">>}, num_user |-> 1,
                                      num_guest |-> 0]),
                                  Err(<<"unknown fetch item">>)}}
    \cup {Connected, [type |-> "Exit"]}

\* a packet about to be written
InitCodec ==
    /\ overflow_checks \in BOOLEAN
    /\ store = "up"
    /\ codec \in {[stage |-> "packet", v |-> v] : v \in CodecPackets}
    /\ lock = NoLock
    /\ client = NoClient
    /\ users = {[id |-> <<"root">>, password |-> <<"alpine">>]}
    /\ channels = with_system_channels
    /\ st = [s \in Sessions |-> "idle"]
    /\ id = [s \in Sessions |-> EmptyString]
    /\ channel_name = [s \in Sessions |-> DEFAULT_CHANNEL]
    /\ subs = [s \in Sessions |-> <<>>]
    /\ res_q = [s \in Sessions |-> <<>>]
    /\ sock_q = [s \in Sessions |-> <<>>]
    /\ socket = [s \in Sessions |-> NoFrame]
    /\ nreq = [s \in Sessions |-> 0]
    /\ granted = [s \in Sessions |-> EmptyString]
    /\ last = [s \in Sessions |-> NoRequest]

Encode ==
    /\ codec.stage = "packet"
    /\ codec' = [stage |-> "text", v |-> codec.v, data |-> as_json_string(codec.v)]
    /\ UNCHANGED <<overflow_checks, store, lock, client, users, channels, st, id,
                   channel_name, subs, res_q, sock_q, socket, nreq, granted, last>>

Decode ==
    /\ codec.stage = "text"
    /\ codec' = [stage |-> "back", v |-> codec.v, back |-> from_str(codec.data)]
    /\ UNCHANGED <<overflow_checks, store, lock, client, users, channels, st, id,
                   channel_name, subs, res_q, sock_q, socket, nreq, granted, last>>

NextCodec ==
    \/ Encode
    \/ Decode

SpecCodec == InitCodec /\ [][NextCodec]_vars

\* ------------------------------------------------------------ the transport
\* The client writes each frame's bytes with nothing before them and the
\* server parses whatever one rd.read returns, so what a read returns is what
\* the transport put together: one frame, two frames end to end, or a piece of
\* a frame that did not fit the buffer or the segment.  `carried` lists the
\* client's frames whose last byte is in the read.
MaxTransportFrames == 2

\* frames a and b in one read: serde_json::from_str refuses the characters
\* that follow the first value
Coalesced(a, b) ==
    [utf8 |-> a.utf8 /\ b.utf8, json |-> FALSE, object |-> FALSE, type |-> None,
     complete |-> FALSE, body |-> NoRequest, carried |-> <<a, b>>]

\* the first bytes of frame a: the text ends inside the object
FragmentHead(a, cut_in_char) ==
    [utf8 |-> a.utf8 /\ ~cut_in_char, json |-> FALSE, object |-> FALSE, type |-> None,
     complete |-> FALSE, body |-> NoRequest, carried |-> <<>>]

\* the bytes of frame a that the read before left behind
FragmentTail(a, cut_in_char) ==
    [utf8 |-> a.utf8 /\ ~cut_in_char, json |-> FALSE, object |-> FALSE, type |-> None,
     complete |-> FALSE, body |-> NoRequest, carried |-> <<a>>]

ClientFrames ==
    { as_json_string([type |-> "LoginReq", login_info |-> GuestLogin]),
      as_json_string(ChatMessage(GuestId(0))) }

TransportInputs ==
    ClientFrames
    \cup {Coalesced(a, b) : a \in ClientFrames, b \in ClientFrames}
    \cup {FragmentHead(a, c) : a \in ClientFrames, c \in BOOLEAN}
    \cup {FragmentTail(a, c) : a \in ClientFrames, c \in BOOLEAN}

NextTransport ==
    \/ \E s \in Sessions : Accept(s)
    \/ FramesLeft(MaxTransportFrames)
         /\ \E s \in Sessions, data \in TransportInputs : Frame(s, data)
    \/ Pipeline

SpecTransport == Init /\ [][NextTransport]_vars

\* ------------------------------------------------------------------ claims
Live(s) == st[s] = "read"

\* what the session's subscribers and responder have handed to the writer:
\* the outbound queue, then the frame written last
OutFrames(s) == sock_q[s] \o <<socket[s]>>

IsMessage(f) == f.pkt.type = "Message"

\* the coordinator of s has just handled a GotoReq naming a channel of the registry
GotoOkStep(s) ==
    /\ nreq'[s] = nreq[s] + 1
    /\ last'[s].type = "GotoReq"
    /\ get_channel(last'[s].channel_name)

\* ... and the channel is another one than its current channel
MoveStep(s) == GotoOkStep(s) /\ last'[s].channel_name # channel_name[s]

\* C1: in every reachable state every channel has num_user + num_guest = |names|,
\* num_guest the number of names starting with "guest_" and num_user the number
\* of the others.
MembershipConsistent ==
    \A c \in DOMAIN channels :
        LET ch == channels[c]
            guests == {n \in ch.names : StartsWithGuest(n)}
        IN  /\ ch.num_user + ch.num_guest = Cardinality(ch.names)
            /\ ch.num_guest = Cardinality(guests)
            /\ ch.num_user = Cardinality(ch.names \ guests)

\* C2: two distinct live sessions on the same channel never hold the same
\* identifier.
UniqueIdentity ==
    \A s, t \in Sessions :
        (s # t /\ Live(s) /\ Live(t) /\ channel_name[s] = channel_name[t]
              /\ id[s] # EmptyString)
            => id[s] # id[t]

\* C3: in every reachable state every channel has num_guest <= 64 and
\* num_user <= 128.
Capacity ==
    \A c \in DOMAIN channels :
        /\ ~UGe(channels[c].num_guest, NUM_MAX_GUEST + 1)
        /\ ~UGe(channels[c].num_user, NUM_MAX_USER + 1)

\* C4: a Message whose id is the identifier granted to session s by its latest
\* successful login, published on the channel s is on, is never put on s's
\* outbound queue nor written to s's socket.
NoSelfEcho ==
    \A s \in Sessions : \A k \in DOMAIN OutFrames(s) :
        IsMessage(OutFrames(s)[k]) => s \notin OutFrames(s)[k].self

\* C5: a connection whose first frame is an account LoginReq with stored
\* credentials gets LoginRes{Ok(id)}; id is then in `public`, num_user is one
\* more and num_guest the same; the join Message is published to every peer
\* logged in on `public`.
FirstAccountLogin ==
    [][\A s \in Sessions : \A info \in LoginInputs :
          (/\ ~info.guest /\ ~is_none(info.id) /\ ~is_none(info.password)
           /\ login(info).ok
           /\ nreq[s] = 0 /\ nreq'[s] = 1
           /\ last'[s] = [type |-> "LoginReq", login_info |-> info])
          => LET pub == channels[DEFAULT_CHANNEL]
                 pub2 == channels'[DEFAULT_CHANNEL]
                 who == unwrap(info.id)
             IN  /\ res_q'[s] = Append(res_q[s], LoginRes(Ok(who)))
                 /\ who \in pub2.names
                 /\ pub2.num_user = pub.num_user + 1
                 /\ pub2.num_guest = pub.num_guest
                 /\ \A t \in Sessions \ {s} :
                       (Live(t) /\ channel_name[t] = DEFAULT_CHANNEL
                               /\ granted[t] # EmptyString)
                         => \E k \in DOMAIN subs'[t][Len(subs'[t])].inbox :
                              LET e == subs'[t][Len(subs'[t])].inbox[k]
                              IN  e.pkt = MessageConnection(who) /\ e.src = s
      ]_vars

\* C6: after a successful GotoReq moving a session with identifier i from X to
\* Y, i is no member of X, i is a member of Y, and both channels' counters are
\* adjusted.
GotoMovesMembership ==
    [][\A s \in Sessions :
          (MoveStep(s) /\ id[s] # EmptyString /\ has_user(channels[channel_name[s]], id[s]))
          => LET X == channel_name[s]
                 Y == last'[s].channel_name
             IN  /\ ~has_user(channels'[X], id[s])
                 /\ has_user(channels'[Y], id[s])
                 /\ channels'[X] = leave_user(channels[X], id[s])
                 /\ channels'[Y] = add_connection(channels[Y], id[s])
      ]_vars

\* C7: a successful GotoReq from X to another channel publishes exactly one
\* departure Message for the mover on X's bus (seen here by the mover's own
\* subscriber on X, which the step cancels but which still holds its receiver).
GotoOneDeparture ==
    [][\A s \in Sessions :
          MoveStep(s)
          => LET k == Len(subs[s])
             IN  /\ Len(subs'[s][k].inbox) = Len(subs[s][k].inbox) + 1
                 /\ subs'[s][k].inbox[Len(subs'[s][k].inbox)].pkt
                       = MessageDisconnection(id[s])
      ]_vars

\* in the backlog of a subscriber spawned by a goto, every Message the mover
\* published comes behind a Connected the mover published, unless the
\* subscriber has taken a Connected already
ArmedBefore ==
    \A s \in Sessions : \A i \in DOMAIN subs[s] :
        subs[s][i].by = "goto"
          => \A j \in DOMAIN subs[s][i].inbox :
                (subs[s][i].inbox[j].pkt.type = "Message" /\ subs[s][i].inbox[j].src = s)
                  => \/ subs[s][i].seen
                     \/ \E k \in 1..(j - 1) :
                           /\ subs[s][i].inbox[k].pkt = Connected
                           /\ subs[s][i].inbox[k].src = s

\* C8: a successful GotoReq from X to another channel Y publishes exactly one
\* packet on Y's bus, a Connected; the mover's new subscriber is subscribed by
\* then (it gets the Connected), and the Connected precedes every Message the
\* mover publishes on Y afterwards.
GotoConnected ==
    [][/\ \A s \in Sessions :
             MoveStep(s)
             => LET Y == last'[s].channel_name
                    n == Len(subs'[s])
                IN  /\ n = Len(subs[s]) + 1
                    /\ subs'[s][n].chan = Y
                    /\ ~subs'[s][n].cancelled
                    /\ Len(subs'[s][n].inbox) = 1
                    /\ subs'[s][n].inbox[1].pkt = Connected
                    /\ subs'[s][n].inbox[1].src = s
                    /\ \A t \in Sessions : \A i \in DOMAIN subs[t] :
                          subs[t][i].chan = Y
                            => /\ Len(subs'[t][i].inbox) = Len(subs[t][i].inbox) + 1
                               /\ subs'[t][i].inbox[Len(subs'[t][i].inbox)]
                                     = subs'[s][n].inbox[1]
       /\ ArmedBefore'
      ]_vars

\* a mover's subscriber on `dev` has taken the Connected and now holds a
\* Message the mover published there
WitnessGotoConnected ==
    \E s \in Sessions : \E i \in DOMAIN subs[s] :
        /\ subs[s][i].by = "goto" /\ subs[s][i].chan = "dev" /\ subs[s][i].seen
        /\ \E k \in DOMAIN subs[s][i].inbox :
              /\ subs[s][i].inbox[k].pkt.type = "Message"
              /\ subs[s][i].inbox[k].src = s

\* C9: no Message published on a channel while the session's current channel
\* was another one (it had gone away) is ever put on the session's outbound
\* queue or written to its socket.
NoOldChannelMessage ==
    \A s \in Sessions : \A k \in DOMAIN OutFrames(s) :
        IsMessage(OutFrames(s)[k]) => s \notin OutFrames(s)[k].away

\* C10: a subscriber forwards a Message only after it has itself received a
\* Connected on its bus, and every subscriber that has received none has
\* connected = false.
BroadcastGated ==
    \A s \in Sessions :
        /\ \A k \in DOMAIN OutFrames(s) :
              IsMessage(OutFrames(s)[k]) => OutFrames(s)[k].gate
        /\ \A i \in DOMAIN subs[s] : ~subs[s][i].seen => ~subs[s][i].connected

\* a broadcast Message has been written to a socket
WitnessBroadcastGated ==
    \E s \in Sessions : IsMessage(socket[s]) /\ socket[s].gate

\* C11: a session that has never completed a successful LoginReq (its
\* identifier slot is still empty) never has a broadcast Message put on its
\* outbound queue or written to its socket, whatever the other sessions do.
NeverLoggedInSilent ==
    \A s \in Sessions :
        (granted[s] = EmptyString /\ id[s] = EmptyString)
            => \A k \in DOMAIN OutFrames(s) : ~IsMessage(OutFrames(s)[k])

\* C12: in the step that enqueues a LoginRes{Ok(i)} toward the responder the
\* coordinator has read a LoginReq and every receiver of the current channel's
\* bus has got the arrival Message of i and then Connected, in that order, as
\* its two newest packets; no other bus has got anything.
LoginOrder ==
    [][\A s \in Sessions :
          (/\ Len(res_q'[s]) = Len(res_q[s]) + 1
           /\ res_q'[s][Len(res_q'[s])].type = "LoginRes"
           /\ res_q'[s][Len(res_q'[s])].result.ok)
          => LET r == res_q'[s][Len(res_q'[s])].result
                 c == channel_name[s]
             IN  /\ nreq'[s] = nreq[s] + 1
                 /\ last'[s].type = "LoginReq"
                 /\ \A t \in Sessions : \A i \in DOMAIN subs[t] :
                       IF subs[t][i].chan = c
                       THEN LET q == subs'[t][i].inbox
                                n == Len(q)
                            IN  /\ n = Len(subs[t][i].inbox) + 2
                                /\ q[n - 1].pkt = MessageConnection(r.val)
                                /\ q[n - 1].src = s
                                /\ q[n].pkt = Connected
                                /\ q[n].src = s
                       ELSE subs'[t][i] = subs[t][i]
      ]_vars

\* a LoginRes{Ok} waits for the responder while a peer's subscriber holds the
\* arrival Message and the Connected of that login
WitnessLoginOrder ==
    \E s \in Sessions, t \in Sessions :
        /\ s # t
        /\ res_q[s] # <<>>
        /\ Head(res_q[s]).type = "LoginRes"
        /\ Head(res_q[s]).result.ok
        /\ \E i \in DOMAIN subs[t] : \E k \in DOMAIN subs[t][i].inbox :
              /\ k > 1
              /\ subs[t][i].inbox[k].pkt = Connected
              /\ subs[t][i].inbox[k].src = s
              /\ subs[t][i].inbox[k - 1].pkt
                    = MessageConnection(Head(res_q[s]).result.val)

\* C14: leaving with an identifier that is not in the channel's names (the
\* empty identifier of a session that never logged in included) changes
\* neither names nor num_user nor num_guest: an Exit of such a session ends
\* the session and leaves every channel as it was.
LeaveIdempotent ==
    [][\A s \in Sessions :
          (/\ nreq'[s] = nreq[s] + 1
           /\ last'[s].type = "Exit"
           /\ ~has_user(channels[channel_name[s]], id[s]))
          => /\ st'[s] = "closed"
             /\ channels' = channels
             /\ leave_user(channels[channel_name[s]], id[s])
                   = channels[channel_name[s]]
      ]_vars

\* C15: once a session has ended (Exit, read EOF or read error) no channel's
\* names contains the identifier its login granted, unless another session
\* was granted the same identifier.
ClosedLeaves ==
    \A s \in Sessions :
        (/\ st[s] = "closed"
         /\ granted[s] # EmptyString
         /\ \A t \in Sessions \ {s} : granted[t] # granted[s])
        => \A c \in DOMAIN channels : ~has_user(channels[c], granted[s])

\* C16: a Message published by logged-in session A goes to the subscriber of
\* every other session logged in on the same channel, and no Message that A
\* published with the identifier of its login is ever handed to A's own
\* writer.
ChatDelivered ==
    [][\A s \in Sessions :
          /\ (/\ nreq'[s] = nreq[s] + 1
              /\ last'[s].type = "Message"
              /\ granted[s] # EmptyString)
             => \A t \in Sessions \ {s} :
                   (Live(t) /\ granted[t] # EmptyString
                           /\ channel_name[t] = channel_name[s])
                     => LET n == Len(subs[t])
                            q == subs'[t][n].inbox
                        IN  /\ Len(q) = Len(subs[t][n].inbox) + 1
                            /\ q[Len(q)].pkt = last'[s]
                            /\ q[Len(q)].src = s
          /\ \A k \in DOMAIN sock_q'[s] :
                (IsMessage(sock_q'[s][k]) /\ ~sock_q'[s][k].pkt.is_system)
                  => ~(sock_q'[s][k].src = s /\ s \in sock_q'[s][k].self)
      ]_vars

\* C17: a Message received from a client is published on the bus of the
\* sender's current channel only, and it is never handed to the writer of a
\* session whose current channel was another one when it was published.
MessageOnCurrentBus ==
    \A s \in Sessions : \A k \in DOMAIN OutFrames(s) :
        (IsMessage(OutFrames(s)[k]) /\ ~OutFrames(s)[k].pkt.is_system)
          => /\ s \notin OutFrames(s)[k].away
             /\ OutFrames(s)[k].src \notin OutFrames(s)[k].away

\* C13: a login rejected for capacity leaves the channel unchanged: with
\* num_user = 128 an account LoginReq is answered Err("too many users"), with
\* num_guest = 64 a guest LoginReq is answered Err("too many guests"); names
\* and both counters stay as they were and nothing is published on any bus.
CapacityRejects ==
    [][\A s \in Sessions :
          (nreq'[s] = nreq[s] + 1 /\ last'[s].type = "LoginReq")
          => LET ch == channels[channel_name[s]]
                 info == last'[s].login_info
             IN  /\ (~info.guest /\ ch.num_user = NUM_MAX_USER)
                    => /\ res_q'[s] = Append(res_q[s], LoginRes(Err(<<"too many users">>)))
                       /\ channels' = channels
                       /\ subs' = subs
                 /\ (info.guest /\ ch.num_guest = NUM_MAX_GUEST)
                    => /\ res_q'[s] = Append(res_q[s], LoginRes(Err(<<"too many guests">>)))
                       /\ channels' = channels
                       /\ subs' = subs
      ]_vars

\* on a full `public` a connection has been refused as a guest and as a user
WitnessCapacityRejects ==
    \E s \in Sessions :
        /\ channels[DEFAULT_CHANNEL] = CrowdedState(NUM_MAX_GUEST, NUM_MAX_USER)
        /\ res_q[s] = << LoginRes(Err(<<"too many guests">>)),
                         LoginRes(Err(<<"too many users">>)) >>

\* a frame that does not decode into a packet
MalformedStep(s) == nreq'[s] = nreq[s] + 1 /\ last'[s].type = "Undecoded"

\* C18: a malformed frame (not UTF-8, not JSON, not an object, unknown or
\* missing `type`, a known `type` with a required field missing) is not fatal:
\* the coordinator goes on reading and session and channel state are unchanged.
MalformedNonFatal ==
    [][\A s \in Sessions :
          MalformedStep(s)
          => /\ st'[s] = "read"
             /\ UNCHANGED <<users, channels, id, channel_name, subs, res_q, sock_q,
                            socket, granted>>
      ]_vars

\* C19: while the credential store is out of order a RegisterReq or LoginReq
\* is answered RegisterRes{Err} / LoginRes{Err} and the coordinator goes on
\* reading; it never panics.
StoreFailureReported ==
    [][\A s \in Sessions :
          (/\ nreq'[s] = nreq[s] + 1
           /\ last'[s].type \in {"RegisterReq", "LoginReq"}
           /\ store # "up")
          => /\ st'[s] = "read"
             /\ Len(res_q'[s]) = Len(res_q[s]) + 1
             /\ res_q'[s][Len(res_q'[s])].type
                   = (IF last'[s].type = "LoginReq" THEN "LoginRes" ELSE "RegisterRes")
             /\ ~res_q'[s][Len(res_q'[s])].result.ok
      ]_vars

Reserved(name) == StartsWith(name, "guest_") \/ StartsWith(name, "root")

\* ids are unique in the store and only the seeded root has a reserved prefix
StoreSound ==
    /\ \A u, v \in users : u.id = v.id => u = v
    /\ \A u \in users : Reserved(u.id) => u.id = <<"root">>

GotoUnknownRejected ==
    [][\A s \in Sessions :
          (/\ nreq'[s] = nreq[s] + 1
           /\ last'[s].type = "GotoReq"
           /\ last'[s].channel_name \notin DOMAIN channels)
          => /\ res_q'[s] = Append(res_q[s],
                   GotoRes(Err(<<"Invalid or not permitted to join the channel">>)))
             /\ UNCHANGED <<subs, channel_name, channels, id, st>>
      ]_vars

\* the refusal has been written to the socket of a session that is still on
\* `public` with the subscriber it got at accept
WitnessGotoUnknownRejected ==
    \E s \in Sessions :
        /\ socket[s].pkt.type = "GotoRes"
        /\ ~socket[s].pkt.result.ok
        /\ channel_name[s] = DEFAULT_CHANNEL
        /\ Len(subs[s]) = 1
        /\ ~subs[s][1].cancelled

\* C27: a LoginReq answered LoginRes{Err} publishes nothing on any bus and
\* leaves every channel's names and counters as they were, and the responder
\* leaves the identifier slot as it was when it handles that LoginRes.
FailedLoginReplyOnly ==
    [][\A s \in Sessions :
          /\ (/\ nreq'[s] = nreq[s] + 1
              /\ last'[s].type = "LoginReq"
              /\ Len(res_q'[s]) = Len(res_q[s]) + 1
              /\ ~res_q'[s][Len(res_q'[s])].result.ok)
             => /\ subs' = subs
                /\ channels' = channels
                /\ id' = id
          /\ (/\ res_q[s] # <<>>
              /\ res_q'[s] = Tail(res_q[s])
              /\ Head(res_q[s]).type = "LoginRes"
              /\ ~Head(res_q[s]).result.ok)
             => /\ id' = id
                /\ sock_q'[s] = Append(sock_q[s], [pkt |-> Head(res_q[s])])
      ]_vars

\* a session that holds an identifier has been refused a second login
WitnessFailedLoginReplyOnly ==
    \E s \in Sessions :
        /\ id[s] # EmptyString
        /\ id[s] = granted[s]
        /\ socket[s].pkt.type = "LoginRes"
        /\ ~socket[s].pkt.result.ok
        /\ has_user(channels[channel_name[s]], id[s])

\* C28: after a successful re-login there is no state in which the channel's
\* names holds the new identifier while the slot still holds the previous one.
ReloginAtomic ==
    \A s \in Sessions :
        (Live(s) /\ id[s] # EmptyString /\ granted[s] # id[s])
            => ~has_user(channels[channel_name[s]], granted[s])

\* C29: on Exit of a logged-in session its identifier is removed from the
\* names of its current channel, exactly one Message "'<id>' has left" with
\* that identifier is published, on that channel's bus only, and the
\* coordinator ends.
ExitFarewell ==
    [][\A s \in Sessions :
          (/\ nreq'[s] = nreq[s] + 1
           /\ last'[s].type = "Exit"
           /\ granted[s] # EmptyString)
          => LET c == channel_name[s]
                 g == granted[s]
             IN  /\ st'[s] = "closed"
                 /\ has_user(channels[c], g)
                 /\ ~has_user(channels'[c], g)
                 /\ \A t \in Sessions : \A i \in DOMAIN subs[t] :
                       IF subs[t][i].chan = c
                       THEN /\ Len(subs'[t][i].inbox) = Len(subs[t][i].inbox) + 1
                            /\ subs'[t][i].inbox[Len(subs'[t][i].inbox)].pkt
                                  = MessageDisconnection(g)
                       ELSE subs'[t][i] = subs[t][i]
      ]_vars

\* C30: a GotoReq naming the session's current channel only sends the reply:
\* no subscriber is cancelled or spawned and no Connected is published.
GotoSameNoOp ==
    [][\A s \in Sessions :
          (GotoOkStep(s) /\ last'[s].channel_name = channel_name[s])
          => /\ subs' = subs
             /\ channel_name' = channel_name
             /\ res_q'[s] = Append(res_q[s], GotoRes(Ok(<<channel_name[s]>>)))
      ]_vars

\* what has been written last to the socket of s, then what waits for the writer
Outbound(s) == <<socket[s]>> \o sock_q[s]

\* C22: the broadcast Messages of one channel reach a session's socket in the
\* order of their publication: of two Messages of one bus handed to the
\* session's writer, the one handed over later was not published earlier.
PublicationOrder ==
    \A s \in Sessions : \A j, k \in DOMAIN Outbound(s) :
        (/\ j < k
         /\ IsMessage(Outbound(s)[j]) /\ IsMessage(Outbound(s)[k])
         /\ Outbound(s)[j].chan = Outbound(s)[k].chan)
        => Outbound(s)[j].at <= Outbound(s)[k].at

\* C23: FetchReq{item:"list"} is answered FetchRes{Ok} with the names and the
\* two counters of the requester's current channel as the registry holds them
\* at that step, any other item Err("unknown fetch item"); no channel and no
\* session state is modified.
FetchSnapshot ==
    [][\A s \in Sessions :
          (nreq'[s] = nreq[s] + 1 /\ last'[s].type = "FetchReq")
          => LET ch == channels[channel_name[s]]
                 item == last'[s].item
                 list == [user_list |-> ch.names, num_user |-> ch.num_user,
                          num_guest |-> ch.num_guest]
             IN  /\ res_q'[s] = Append(res_q[s],
                       IF item = "list"
                       THEN FetchRes(item, Ok(list))
                       ELSE FetchRes(item, Err(<<"unknown fetch item">>)))
                 /\ UNCHANGED <<users, channels, st, id, channel_name, subs, sock_q,
                                socket>>
      ]_vars

\* a session that went to `dev` has been sent the list of `dev`, which is not
\* the list of `public`
WitnessFetchSnapshot ==
    \E s \in Sessions :
        /\ channel_name[s] = "dev"
        /\ socket[s].pkt.type = "FetchRes"
        /\ socket[s].pkt.result.ok
        /\ socket[s].pkt.result.val.user_list = channels["dev"].names
        /\ channels["dev"].names # channels[DEFAULT_CHANNEL].names

\* C21: publishing on a bus waits on no subscriber: whatever the state of the
\* outbound queues, a Message the coordinator reads is put on the bus in that
\* step and every receiver of the bus gets it (a receiver a full backlog
\* behind loses its oldest packet instead).
PublishNeverWaits ==
    [][\A s \in Sessions :
          (nreq'[s] = nreq[s] + 1 /\ last'[s].type = "Message")
          => \A t \in Sessions : \A i \in DOMAIN subs[t] :
                IF subs[t][i].chan # channel_name[s]
                THEN subs'[t][i] = subs[t][i]
                ELSE LET q == subs'[t][i].inbox
                     IN  /\ IF Len(subs[t][i].inbox) >= BUS_CAPACITY
                            THEN subs'[t][i].lagged
                            ELSE Len(q) = Len(subs[t][i].inbox) + 1
                         /\ q[Len(q)].pkt = last'[s]
                         /\ q[Len(q)].src = s
      ]_vars

\* the outbound queue of the slow session is full and its subscriber is held
\* up with a Message of the talker, and a Message the slow session published
\* since has been written to the talker's socket
WitnessPublishNeverWaits ==
    /\ Len(sock_q[SlowSession]) = QUEUE_CAPACITY
    /\ subs[SlowSession][1].inbox # <<>>
    /\ Head(subs[SlowSession][1].inbox).src = Talker
    /\ IsMessage(Head(subs[SlowSession][1].inbox))
    /\ IsMessage(socket[Talker])
    /\ socket[Talker].src = SlowSession


\* C25: decoding the encoding of a packet gives the packet back: from_str
\* applied to the JSON that as_json_string produced returns, without
\* panicking, the same variant with the same field values.
RoundTrip ==
    codec.stage = "back" =>
        /\ ~codec.back.panic
        /\ codec.back.packet = Some(codec.v)

\* a registration whose optional fields are one absent and one the text
\* "null" has gone through the encoder and the decoder
WitnessRoundTrip ==
    /\ codec.stage = "back"
    /\ codec.v.type = "RegisterReq"
    /\ is_none(codec.v.user.bio)
    /\ codec.v.user.location = Some(<<"null">>)

\* C26: frame boundaries survive the transport: every frame of the client
\* that ends in a read is dispatched as a packet, so a read that is dropped
\* undecoded carries no frame of the client.
FrameBoundariesSurvive ==
    [][\A s \in Sessions :
          ( /\ nreq'[s] = nreq[s] + 1
            /\ last'[s].type = "Undecoded"
            /\ "carried" \in DOMAIN last'[s].data )
          => Len(last'[s].data.carried) = 0]_vars

\* a coordinator waiting in res_tx.send on the full queue of its responder
Stalled(s) == lock.pc[s].at = "send" /\ Len(res_q[s]) >= QUEUE_CAPACITY

LagNotFatal ==
    [][\A s \in Sessions : \A i \in DOMAIN subs[s] :
          /\ subs[s][i].lagged =>
                /\ i \in DOMAIN subs'[s]
                /\ subs'[s][i].connected = subs[s][i].connected
                /\ ~subs'[s][i].lagged => subs'[s][i].inbox = subs[s][i].inbox
          /\ ( /\ ~subs[s][i].lagged
               /\ subs[s][i].connected
               /\ subs[s][i].inbox # <<>>
               /\ Head(subs[s][i].inbox).pkt.type = "Message"
               /\ Head(subs[s][i].inbox).pkt.id # id[s]
               /\ i \in DOMAIN subs'[s]
               /\ subs'[s][i].inbox = Tail(subs[s][i].inbox) )
             => /\ Len(sock_q'[s]) = Len(sock_q[s]) + 1
                /\ sock_q'[s][Len(sock_q'[s])].pkt = Head(subs[s][i].inbox).pkt
                /\ sock_q'[s][Len(sock_q'[s])].at = Head(subs[s][i].inbox).at]_vars

\* the subscriber of session 1 has taken the lag signal and the writer has
\* written a Message that was published after the bus overran it
WitnessLagNotFatal ==
    /\ ~subs[SlowSession][1].lagged
    /\ subs[SlowSession][1].connected
    /\ "at" \in DOMAIN socket[SlowSession]
    /\ socket[SlowSession].at >= LagBase + 1

\* a valid channel name in the words of the specification: at least three
\* long, first character an ASCII letter or `_`, every character an ASCII
\* letter, an ASCII digit or `_`
ValidName(name) ==
    LET cs == Chars(name)
    IN  /\ Len(cs) >= 3
        /\ cs[1] \in ASCII_ALPHABETIC \cup {"_"}
        /\ \A k \in 1..Len(cs) : cs[k] \in ASCII_ALPHABETIC \cup ASCII_DIGIT \cup {"_"}

\* C33: create_channel adds a channel exactly when the name is valid and no
\* channel has it, the new channel is empty and the others are as they
\* were; otherwise it returns None and the registry is as it was.  After
\* with_system_channels the registry holds public, main and dev.
CreateGuarded ==
    /\ DOMAIN with_system_channels = {"public", "main", "dev"}
    /\ \A name \in NameInputs :
          LET r == create_channel(channels, name)
          IN  /\ r.created <=> (ValidName(name) /\ name \notin DOMAIN channels)
              /\ ~r.created => r.reg = channels
              /\ r.created =>
                    /\ DOMAIN r.reg = DOMAIN channels \cup {name}
                    /\ r.reg[name] = NewState
                    /\ \A c \in DOMAIN channels : r.reg[c] = channels[c]

\* `_x1` and `Room_2` have been created and `public` still has its members
WitnessCreateGuarded ==
    /\ {"_x1", "Room_2"} \subseteq DOMAIN channels
    /\ channels[DEFAULT_CHANNEL].names = {GuestId(s - 1) : s \in Sessions}
    /\ ~create_channel(channels, DEFAULT_CHANNEL).created

\* C34: an account login succeeds only when the store holds a record with
\* the id and the password of the request, and then the id of LoginRes{Ok}
\* and the id inserted into the channel's names are the requested id;
\* with no such record the result is Err("Wrong ID or Password").
AccountLoginVerified ==
    [][\A s \in Sessions :
          ( /\ nreq'[s] = nreq[s] + 1
            /\ last'[s].type = "LoginReq"
            /\ ~last'[s].login_info.guest
            /\ Len(res_q'[s]) = Len(res_q[s]) + 1 )
          => LET info == last'[s].login_info
                 res == res_q'[s][Len(res_q'[s])].result
                 known == \E u \in users : /\ u.id = unwrap(info.id)
                                            /\ u.password = unwrap(info.password)
             IN  /\ res.ok =>
                       /\ known
                       /\ res.val = unwrap(info.id)
                       /\ res.val \in channels'[channel_name[s]].names
                 /\ (~res.ok /\ ~known) => res.val = <<"Wrong ID or Password">>]_vars

\* C35: a live session accounts for at most one membership entry: while no
\* connection has ended, every name in a channel's names is the current
\* identifier of a session whose current channel is that channel.
OneMembership ==
    (\A s \in Sessions : st[s] \in {"idle", "read"}) =>
        \A c \in DOMAIN channels : \A n \in channels[c].names :
            \E s \in Sessions : /\ st[s] = "read"
                                 /\ granted[s] = n
                                 /\ channel_name[s] = c

\* C36: the channel name a session holds is always a key of the registry,
\* so the lookups of the LoginReq, FetchReq and Exit arms find the channel.
ChannelNameResolves ==
    \A s \in Sessions : channel_name[s] \in DOMAIN channels

\* a session went to `dev` and then asked for a channel that does not exist
WitnessChannelNameResolves ==
    \E s \in Sessions :
        /\ last[s] = [type |-> "GotoReq", channel_name |-> "nowhere"]
        /\ channel_name[s] = "dev"

\* C37: after a successful login the session's current subscriber
\* eventually has connected = true, whatever the other sessions publish in
\* between.
EventuallyConnected ==
    \A s \in Sessions :
        [](granted[s] # EmptyString => <>(subs[s][Len(subs[s])].connected))

\* C38: once the coordinator of a session has returned its tasks stop: no
\* packet published after the return is written to the session's socket.
ReturnedSilent ==
    [][\A s \in Sessions :
          (socket'[s] # socket[s] /\ "gone" \in DOMAIN socket'[s])
          => s \notin socket'[s].gone]_vars

\* C39: every Message a client caused on a bus is attributable to its
\* sender: a Message with is_system = false waiting on a bus was published
\* by a logged-in session whose identifier is the Message's id.
Attributable ==
    \A s \in Sessions : \A i \in DOMAIN subs[s] : \A k \in DOMAIN subs[s][i].inbox :
        LET e == subs[s][i].inbox[k]
        IN  (e.pkt.type = "Message" /\ ~e.pkt.is_system) => e.src \in e.self

\* C40: a request of the client is matched with its reply: once the server
\* has written the response to the request in flight, consume_til
\* eventually returns that response to the main task.
Matched ==
    \A s \in Sessions :
        (client[s].pc \in {"sent", "waiting"} /\ client[s].reply # None)
            ~> (client[s].pc \in {"idle", "panicked"} /\ client[s].got = client[s].reply)

====
